---- MODULE Spec2Model ----
(***************************************************************************)
(* Model of the angzarr C++ client runtime: the type-URL helpers, the      *)
(* functional CommandRouter (client/cpp/include/angzarr/router.hpp) and    *)
(* the example player aggregate service.                                   *)
(*                                                                         *)
(* Strings are sequences of tokens.  "/" and "." are tokens of their own,  *)
(* so that rfind('/'), prefix concatenation and string equality are        *)
(* computed on the sequence exactly as the code computes them on chars.    *)
(***************************************************************************)
EXTENDS Integers, Sequences, FiniteSets, TLC

VARIABLES
    domain_,              \* CommandRouter::domain_
    rebuild_,             \* CommandRouter::rebuild_ is set (not nullptr)
    handlers_,            \* CommandRouter::handlers_ : vector of suffixes, the handler is its index
    rejection_handlers_,  \* CommandRouter::rejection_handlers_ : key -> handler behaviour
    pc,                   \* "idle" (no dispatch in progress) or "done" (a dispatch returned)
    cmd,                  \* the ContextualCommand of the last dispatch
    response,             \* what the last dispatch returned or threw
    calls,                \* user callbacks the last dispatch invoked, in order
    seq,                  \* the next_seq the last dispatch computed (-1: not computed)
    book,                 \* player aggregate: the stored EventBook of one root
    last,                 \* player aggregate: outcome of the last Handle
    appliers,             \* Aggregate::appliers(), ProcessManager::appliers(), StateRouter::appliers_
    rebuilt,              \* the last rebuild: its event book and what each component built
    hand,                 \* hand aggregate: the last HandState::from_event_book, book and result
    pm,                   \* ProcessManager: handlers(), rejection_handlers() and the last dispatch
    flow,                 \* hand-flow service: HandProcessManager::processes_ and the last Handle
    saga,                 \* Saga: handlers(), prepare_handlers() and the last two-phase run
    prepared,              \* hand/saga-player service: the last Prepare request and response
    statics,              \* the function-local static handler maps of Saga, Projector, Aggregate<StateT>
    checked,              \* validation.hpp: the last require_* call and what it threw
    executed,             \* hand/saga-player: the last saga dispatch, its request and its command books
    er,                   \* EventRouter: current_domain_, handlers_, prepare_handlers_
    qb,                   \* QueryBuilder: its fields, and the last setter called with its argument
    up,                   \* UpcasterRouter: handlers_, and the last upcast with its pages and result
    handagg,              \* hand aggregate service: the stored EventBook of one hand and the last Handle
    table                \* table aggregate service: the stored EventBook of one table and the last response

routerVars == <<domain_, rebuild_, handlers_, rejection_handlers_, pc, cmd, response, calls, seq>>
playerVars == <<book, last>>
rebuildVars == <<appliers, rebuilt>>
handVars == <<hand>>
pmVars == <<pm>>
flowVars == <<flow>>
sagaVars == <<saga>>
serviceVars == <<prepared>>
staticVars == <<statics>>
validationVars == <<checked>>
executeVars == <<executed>>
eventRouterVars == <<er>>
queryVars == <<qb>>
upcasterVars == <<up>>
handAggVars == <<handagg>>
tableVars == <<table>>
vars == <<routerVars, playerVars, rebuildVars, handVars, pmVars, flowVars, sagaVars, serviceVars, staticVars, validationVars, executeVars, eventRouterVars, queryVars, upcasterVars, handAggVars, tableVars>>

\* What the actions of one part leave alone: the variables of the other parts
exceptRouter == <<playerVars, rebuildVars, handVars, pmVars, flowVars, sagaVars, serviceVars, staticVars, validationVars, executeVars, eventRouterVars, queryVars, upcasterVars, handAggVars, tableVars>>
exceptPlayer == <<routerVars, rebuildVars, handVars, pmVars, flowVars, sagaVars, serviceVars, staticVars, validationVars, executeVars, eventRouterVars, queryVars, upcasterVars, handAggVars, tableVars>>
exceptRebuild == <<routerVars, playerVars, handVars, pmVars, flowVars, sagaVars, serviceVars, staticVars, validationVars, executeVars, eventRouterVars, queryVars, upcasterVars, handAggVars, tableVars>>
exceptHand == <<routerVars, playerVars, rebuildVars, pmVars, flowVars, sagaVars, serviceVars, staticVars, validationVars, executeVars, eventRouterVars, queryVars, upcasterVars, handAggVars, tableVars>>
exceptPM == <<routerVars, playerVars, rebuilt, handVars, flowVars, sagaVars, serviceVars, staticVars, validationVars, executeVars, eventRouterVars, queryVars, upcasterVars, handAggVars, tableVars>>
exceptFlow == <<routerVars, playerVars, rebuildVars, handVars, pmVars, sagaVars, serviceVars, staticVars, validationVars, executeVars, eventRouterVars, queryVars, upcasterVars, handAggVars, tableVars>>
exceptSaga == <<routerVars, playerVars, rebuildVars, handVars, pmVars, flowVars, serviceVars, staticVars, validationVars, executeVars, eventRouterVars, queryVars, upcasterVars, handAggVars, tableVars>>

\* ------------------------------------------------------------------ bounds
MaxHandlers == 2       \* command handlers registered on one router
MaxRejections == 1     \* distinct rejection keys registered on one router
MaxPages == 2          \* pages of a prior event book
MaxCommands == 4       \* commands handled by the player aggregate
MaxAmount == 2         \* largest amount carried by a player command
MaxTrigger == 1        \* pages of a trigger event book sent to the hand-flow service
MaxHandles == 5        \* Handle calls made on one hand-flow service
MaxDealRank == 4       \* highest rank of the deck the hand aggregate deals from
MaxHandCommands == 3   \* event pages stored for one hand before the last command
MaxSeats == 2          \* largest max_players of a CreateTable command
MaxTableCommands == 6  \* event pages stored for one table before the last command

\* ------------------------------------------------------------ string helpers
Max(S) == CHOOSE x \in S : \A y \in S : y <= x
Min(S) == CHOOSE x \in S : \A y \in S : x <= y

\* std::string::rfind('/') : 0 stands for npos
rfind_slash(s) ==
    LET at == {i \in 1..Len(s) : s[i] = "/"} IN IF at = {} THEN 0 ELSE Max(at)

\* std::string::find('/') : 0 stands for npos
find_slash(s) ==
    LET at == {i \in 1..Len(s) : s[i] = "/"} IN IF at = {} THEN 0 ELSE Min(at)

TYPE_URL_PREFIX == <<"type.googleapis.com", "/">>

type_name_from_url(type_url) ==
    LET pos == rfind_slash(type_url)
    IN IF pos # 0 THEN SubSeq(type_url, pos + 1, Len(type_url)) ELSE type_url

\* s ends with t
EndsWith(s, t) ==
    /\ Len(t) <= Len(s)
    /\ SubSeq(s, Len(s) - Len(t) + 1, Len(s)) = t

\* the type URL merely ends with the name (std::string::compare on the tail)
type_url_matches_suffix(type_url, suffix) ==
    /\ Len(suffix) <= Len(type_url)
    /\ SubSeq(type_url, Len(type_url) - Len(suffix) + 1, Len(type_url)) = suffix

\* helpers::type_url_matches
type_url_matches(type_url, type_name) == type_url = TYPE_URL_PREFIX \o type_name

\* ---------------------------------------------------------- protobuf values
\* Fully qualified message names of the framework's own messages.
FN_Notification == <<"angzarr", ".", "Notification">>
FN_RejectionNotification == <<"angzarr", ".", "RejectionNotification">>
FN_Empty == <<"google", ".", "protobuf", ".", "Empty">>

EmptyBody == [kind |-> "none"]
EmptyAny == [type_url |-> <<>>, body |-> EmptyBody]

\* google::protobuf::Any::PackFrom(message): prefix + "/" + full name
PackFrom(message, full_name) == [type_url |-> TYPE_URL_PREFIX \o full_name, body |-> message]

\* google::protobuf::Any::Is<T>(): the part after the last '/' is T's full name
AnyIs(any, full_name) ==
    /\ rfind_slash(any.type_url) # 0
    /\ type_name_from_url(any.type_url) = full_name

EmptyCommandBook == [domain |-> <<>>, pages |-> <<>>]
DefaultRejection == [kind |-> "rejection", has_rejected_command |-> FALSE,
                     rejected_command |-> EmptyCommandBook]
DefaultNotification == [kind |-> "notification", has_payload |-> FALSE, payload |-> EmptyAny]

\* Any::UnpackTo(&message): the message is left default-constructed on a type mismatch
UnpackTo(any, full_name, default) == IF AnyIs(any, full_name) THEN any.body ELSE default

\* ------------------------------------------------------------------ inputs
Domains == {<<"inventory">>, <<"payment">>}
RejectedNames == {<<"ReserveStock">>}
RejectedUrls == {TYPE_URL_PREFIX \o <<"ReserveStock">>, TYPE_URL_PREFIX \o <<"Charge">>}

RejectedCommands ==
    {[domain |-> d, pages |-> p] :
        d \in Domains, p \in {<<>>} \cup {<<[type_url |-> u, body |-> EmptyBody]>> : u \in RejectedUrls}}

RejectionNotifications ==
    {DefaultRejection} \cup
    {[kind |-> "rejection", has_rejected_command |-> TRUE, rejected_command |-> c] :
        c \in RejectedCommands}

Notifications ==
    {DefaultNotification,
     [kind |-> "notification", has_payload |-> TRUE, payload |-> PackFrom(EmptyBody, FN_Empty)]} \cup
    {[kind |-> "notification", has_payload |-> TRUE,
      payload |-> PackFrom(r, FN_RejectionNotification)] : r \in RejectionNotifications}

\* Names command handlers are registered under.
HandlerNames == {<<"CreateOrder">>, <<"examples", ".", "CreateOrder">>, <<"Notification">>}

\* Type URLs of ordinary commands: empty, standard prefix (registered or not),
\* no prefix at all, and a foreign prefix.
OrdinaryUrls ==
    {<<>>,
     TYPE_URL_PREFIX \o <<"CreateOrder">>,
     TYPE_URL_PREFIX \o <<"examples", ".", "CreateOrder">>,
     TYPE_URL_PREFIX \o <<"UnknownCommand">>,
     <<"CreateOrder">>,
     <<"example.com", "/", "CreateOrder">>}

\* Type URLs a Notification travels under: as Any::PackFrom writes it, and the
\* bare message name after the prefix.
NotificationUrls == {TYPE_URL_PREFIX \o FN_Notification, TYPE_URL_PREFIX \o <<"Notification">>}

CommandAnys ==
    {[type_url |-> u, body |-> EmptyBody] : u \in OrdinaryUrls} \cup
    {[type_url |-> u, body |-> n] : u \in NotificationUrls, n \in Notifications}

CommandBooks ==
    {[domain |-> <<"test">>, pages |-> p] : p \in {<<>>} \cup {<<a>> : a \in CommandAnys}}

\* A prior event book of n pages numbered from `first`.
EventBookOf(n, first) ==
    [pages |-> [i \in 1..n |-> [sequence |-> first + i - 1,
                                type_url |-> TYPE_URL_PREFIX \o <<"TestEvent">>]]]

EventBooks == {EventBookOf(n, f) : n \in 0..MaxPages, f \in {0, 1}}

ContextualCommands ==
    {[command |-> c, has_events |-> FALSE, events |-> EventBookOf(0, 0)] : c \in CommandBooks} \cup
    {[command |-> c, has_events |-> TRUE, events |-> e] : c \in CommandBooks, e \in EventBooks}

NoCommand == [command |-> EmptyCommandBook, has_events |-> FALSE, events |-> EventBookOf(0, 0)]
NoResponse == [kind |-> "none"]

\* --------------------------------------------------------------- helpers.hpp
next_sequence_last_plus_one(has_book, b) ==
    IF ~has_book \/ Len(b.pages) = 0 THEN 1 ELSE b.pages[Len(b.pages)].sequence + 1

\* helpers::next_sequence(const EventBook* book); has_book is "book != nullptr"
next_sequence(has_book, b) ==
    IF ~has_book \/ Len(b.pages) = 0 THEN 0 ELSE Len(b.pages)

\* ---------------------------------------------------------------- user code
\* The state rebuilder handed to the router (the tests' rebuildState).
rebuildState(has_book, b) == [value |-> IF has_book THEN Len(b.pages) ELSE 0]

\* A command handler: one page stamped with the seq it was given.
handler_events(i, s) ==
    [pages |-> <<[sequence |-> s, type_url |-> TYPE_URL_PREFIX \o <<"OrderCreated">>, by |-> i]>>]

CompensationEvents ==
    [pages |-> <<[sequence |-> 0, type_url |-> TYPE_URL_PREFIX \o <<"StockReleased">>, by |-> 0]>>]

\* What a rejection handler returns: RejectionHandlerResponse{events?, notification?}
Behaviours == {"events", "notification", "both", "empty"}
rejection_handler(behaviour, notification) ==
    [has_events |-> behaviour \in {"events", "both"},
     events |-> CompensationEvents,
     has_notification |-> behaviour \in {"notification", "both"},
     notification |-> notification]

\* --------------------------------------------------------------- responses
Events(e) == [kind |-> "events", events |-> e]
Forward(n) == [kind |-> "notification", notification |-> n]
Revocation(emit, reason) == [kind |-> "revocation", emit_system_revocation |-> emit, reason |-> reason]
Throw(what, message) == [kind |-> "error", error |-> what, message |-> message]

RejectionKey(domain, command) == domain \o <<"/">> \o command
RejectionKeys == {RejectionKey(d, c) : d \in Domains, c \in RejectedNames}

\* ---------------------------------------------------------------- router.hpp
last_match(hit) == Max(hit)

\* the handler loop of dispatch returns at the first registered handler that matches
first_match(hit) == Min(hit)

\* CommandRouter::dispatch_rejection
dispatch_rejection(notification, state, done) ==
    LET rejection == IF notification.has_payload
                     THEN UnpackTo(notification.payload, FN_RejectionNotification, DefaultRejection)
                     ELSE DefaultRejection
        found == /\ notification.has_payload
                 /\ AnyIs(notification.payload, FN_RejectionNotification)
                 /\ rejection.has_rejected_command
                 /\ Len(rejection.rejected_command.pages) > 0
        domain == IF found THEN rejection.rejected_command.domain ELSE <<>>
        command_suffix == IF found
                          THEN type_name_from_url(rejection.rejected_command.pages[1].type_url)
                          ELSE <<>>
        expected_domain(key) ==
            LET pos == find_slash(key) IN IF pos = 0 THEN key ELSE SubSeq(key, 1, pos - 1)
        expected_command(key) == SubSeq(key, find_slash(key) + 1, Len(key))
        matching == {key \in DOMAIN rejection_handlers_ :
                        /\ domain = expected_domain(key)
                        /\ type_url_matches(command_suffix, expected_command(key))}
    IN IF matching # {}
       THEN LET key == CHOOSE k \in matching : TRUE
                r == rejection_handler(rejection_handlers_[key], notification)
                c == done \o <<[op |-> "on_rejected", key |-> key, state |-> state]>>
            IN IF r.has_notification
               THEN [response |-> Forward(r.notification), calls |-> c]
               ELSE IF r.has_events
               THEN [response |-> Events(r.events), calls |-> c]
               ELSE [response |-> Revocation(FALSE, <<"Aggregate ">> \o domain_ \o
                                      <<" handled rejection for ">> \o key),
                     calls |-> c]
       ELSE [response |-> Revocation(TRUE, <<"Aggregate ">> \o domain_ \o
                              <<" has no custom compensation for ">> \o domain \o <<"/">> \o
                              command_suffix),
             calls |-> done]

\* CommandRouter::dispatch, with get_state inlined at its call
dispatch(c) ==
    IF ~rebuild_
    THEN [response |-> Throw("runtime_error", <<"CommandRouter requires rebuild function">>),
          calls |-> <<>>, seq |-> -1]
    ELSE
    LET state == rebuildState(c.has_events, c.events)
        s == next_sequence(c.has_events, c.events)
        done == <<[op |-> "rebuild", key |-> <<>>, state |-> state]>>
    IN IF Len(c.command.pages) = 0
       THEN [response |-> Throw("InvalidArgument", <<"No command pages">>), calls |-> done, seq |-> s]
       ELSE
       LET command_any == c.command.pages[1]
           type_url == command_any.type_url
           hit == {i \in 1..Len(handlers_) : type_url_matches(type_url, handlers_[i])}
       IN IF type_url = <<>>
          THEN [response |-> Throw("InvalidArgument", <<"No command pages">>),
                calls |-> done, seq |-> s]
          ELSE IF type_url_matches(type_url, <<"Notification">>)
          THEN LET r == dispatch_rejection(
                            UnpackTo(command_any, FN_Notification, DefaultNotification),
                            state, done)
               IN [response |-> r.response, calls |-> r.calls, seq |-> s]
          ELSE IF hit # {}
          THEN [response |-> Events(handler_events(first_match(hit), s)),
                calls |-> done \o <<[op |-> "on", key |-> handlers_[first_match(hit)], state |-> state]>>,
                seq |-> s]
          ELSE [response |-> Throw("InvalidArgument", <<"Unknown command type: ">> \o type_url),
                calls |-> done, seq |-> s]

\* CommandRouter::on
On(suffix) ==
    /\ pc = "idle"
    /\ Len(handlers_) < MaxHandlers
    /\ handlers_' = Append(handlers_, suffix)
    /\ UNCHANGED <<domain_, rebuild_, rejection_handlers_, pc, cmd, response, calls, seq>>
    /\ UNCHANGED exceptRouter

\* CommandRouter::on_rejected
OnRejected(domain, command, behaviour) ==
    LET key == RejectionKey(domain, command) IN
    /\ pc = "idle"
    /\ key \in DOMAIN rejection_handlers_ \/ Cardinality(DOMAIN rejection_handlers_) < MaxRejections
    /\ rejection_handlers_' =
           [k \in DOMAIN rejection_handlers_ \cup {key} |->
               IF k = key THEN behaviour ELSE rejection_handlers_[k]]
    /\ UNCHANGED <<domain_, rebuild_, handlers_, pc, cmd, response, calls, seq>>
    /\ UNCHANGED exceptRouter

\* One call of CommandRouter::dispatch, from entry to return or throw
Dispatch(c) ==
    LET r == dispatch(c) IN
    /\ pc = "idle"
    /\ pc' = "done"
    /\ cmd' = c
    /\ response' = r.response
    /\ calls' = r.calls
    /\ seq' = r.seq
    /\ UNCHANGED <<domain_, rebuild_, handlers_, rejection_handlers_>>
    /\ UNCHANGED exceptRouter

\* The caller takes the response; the router keeps nothing of the call
Return ==
    /\ pc = "done"
    /\ pc' = "idle"
    /\ cmd' = NoCommand
    /\ response' = NoResponse
    /\ calls' = <<>>
    /\ seq' = -1
    /\ UNCHANGED <<domain_, rebuild_, handlers_, rejection_handlers_>>
    /\ UNCHANGED exceptRouter

NoBook == [pages |-> <<>>]
\* The classes that rebuild state from an event book
Components == {"Aggregate", "ProcessManager", "StateRouter"}
NoRebuild ==
    [done |-> FALSE, present |-> FALSE, pages |-> <<>>,
     aggregate |-> [state_ |-> <<>>, exists_ |-> FALSE],
     process_manager |-> [state_ |-> <<>>, exists_ |-> FALSE],
     state_router |-> <<>>]
\* HandState{} as default-constructed
EmptyHandState ==
    [hand_id |-> <<>>, table_root |-> <<>>, hand_number |-> 0,
     game_variant |-> "GAME_VARIANT_UNSPECIFIED", remaining_deck |-> <<>>,
     players |-> [position \in {} |-> 0], community_cards |-> <<>>,
     current_phase |-> "BETTING_PHASE_UNSPECIFIED", action_on_position |-> -1,
     current_bet |-> 0, min_raise |-> 0, pots |-> <<>>, dealer_position |-> 0,
     small_blind_position |-> 0, big_blind_position |-> 0, small_blind |-> 0,
     big_blind |-> 0, status |-> <<>>]
NoHand == [done |-> FALSE, pages |-> <<>>, branches |-> <<>>, state |-> EmptyHandState]
\* A process manager with nothing registered and no dispatch made
NoDispatch ==
    [handlers |-> {}, rejection_handlers |-> {}, done |-> FALSE,
     has_cover |-> FALSE, correlation_id |-> <<>>, pages |-> <<>>,
     prior |-> [present |-> FALSE, pages |-> <<>>],
     state_ |-> <<>>, exists_ |-> FALSE, commands |-> <<>>, calls |-> <<>>]
\* HandFlowService as constructed: no processes, no Handle call yet
NoFlow ==
    [processes_ |-> [hand_id \in {} |-> 0], calls |-> 0, done |-> FALSE,
     correlation_id |-> <<>>, pages |-> <<>>, commands |-> <<>>]
\* A saga with nothing registered and no event book handled
NoSaga ==
    [handlers |-> {}, prepare_handlers |-> {}, done |-> FALSE, has_cover |-> FALSE,
     domain |-> <<>>, correlation_id |-> <<>>, pages |-> <<>>, destinations |-> <<>>,
     commands |-> <<>>]
\* No Prepare request handled yet
NoPrepare == [done |-> FALSE, pages |-> <<>>, destinations |-> <<>>]
exceptStatics == <<routerVars, playerVars, rebuildVars, handVars, pmVars, flowVars, sagaVars, serviceVars, validationVars, executeVars, eventRouterVars, queryVars, upcasterVars, handAggVars, tableVars>>
\* Static maps before any static initializer ran, no message handled
NoStatics ==
    [maps |-> [key \in {<<"Saga">>, <<"Projector">>, <<"Aggregate", "StateX">>, <<"Aggregate", "StateY">>} |->
                  [n \in {} |-> ""]],
     registered |-> {}, done |-> FALSE, self |-> "", name |-> <<>>, owner |-> ""]
exceptValidation == <<routerVars, playerVars, rebuildVars, handVars, pmVars, flowVars, sagaVars, serviceVars, staticVars, executeVars, eventRouterVars, queryVars, upcasterVars, handAggVars, tableVars>>
\* No validation helper called yet
NoCheck ==
    [helper |-> "", argument |-> <<>>, threw |-> FALSE, error |-> [class |-> "", message |-> <<>>]]
exceptExecute == <<routerVars, playerVars, rebuildVars, handVars, pmVars, flowVars, sagaVars, serviceVars, staticVars, validationVars, eventRouterVars, queryVars, upcasterVars, handAggVars, tableVars>>
\* No saga dispatch handled yet
NoExecute ==
    [done |-> FALSE, handler |-> "", correlation_id |-> <<>>, pages |-> <<>>,
     destinations |-> <<>>, commands |-> <<>>]
exceptEventRouter == <<routerVars, playerVars, rebuildVars, handVars, pmVars, flowVars, sagaVars, serviceVars, staticVars, validationVars, executeVars, queryVars, upcasterVars, handAggVars, tableVars>>
\* EventRouter(name): no domain context, nothing registered
NoEventRouter ==
    [current_domain_ |-> <<>>, handlers_ |-> [d \in {} |-> <<>>], prepare_handlers_ |-> [d \in {} |-> {}]]
exceptQuery == <<routerVars, playerVars, rebuildVars, handVars, pmVars, flowVars, sagaVars, serviceVars, staticVars, validationVars, executeVars, eventRouterVars, upcasterVars, handAggVars, tableVars>>
\* QueryBuilder(client, domain) as constructed; std::nullopt is <<>>, a value v is <<v>>
NoQuery ==
    [root_ |-> <<>>, correlation_id_ |-> <<>>, edition_ |-> <<>>,
     has_range_ |-> FALSE, range_lower_ |-> 0, range_upper_ |-> <<>>,
     has_temporal_ |-> FALSE, temporal_sequence_ |-> <<>>, temporal_time_ |-> <<>>,
     call |-> "", argument |-> <<>>, threw |-> FALSE]
exceptUpcaster == <<routerVars, playerVars, rebuildVars, handVars, pmVars, flowVars, sagaVars, serviceVars, staticVars, validationVars, executeVars, eventRouterVars, queryVars, handAggVars, tableVars>>
\* UpcasterRouter(domain): nothing registered, nothing upcast
NoUpcast == [handlers_ |-> <<>>, done |-> FALSE, events |-> <<>>, result |-> <<>>]
exceptHandAgg == <<routerVars, playerVars, rebuildVars, handVars, pmVars, flowVars, sagaVars, serviceVars, staticVars, validationVars, executeVars, eventRouterVars, queryVars, upcasterVars, tableVars>>
NoHandAgg == [pages |-> <<>>, status |-> "none", command |-> <<>>, events |-> <<>>]
exceptTable == <<routerVars, playerVars, rebuildVars, handVars, pmVars, flowVars, sagaVars, serviceVars, staticVars, validationVars, executeVars, eventRouterVars, queryVars, upcasterVars, handAggVars>>
NoTable == [pages |-> <<>>, status |-> "none", events |-> <<>>]
NoOutcome == [status |-> "none", message |-> "", command |-> <<>>, pages |-> <<>>]

\* CommandRouter(domain, rebuild = nullptr)
Init ==
    /\ domain_ = <<"test">>
    /\ rebuild_ \in BOOLEAN
    /\ handlers_ = <<>>
    /\ rejection_handlers_ = [k \in {} |-> "empty"]
    /\ pc = "idle"
    /\ cmd = NoCommand
    /\ response = NoResponse
    /\ calls = <<>>
    /\ seq = -1
    /\ book = NoBook
    /\ last = NoOutcome
    /\ appliers = [c \in Components |-> {}]
    /\ rebuilt = NoRebuild
    /\ hand = NoHand
    /\ pm = NoDispatch
    /\ flow = NoFlow
    /\ saga = NoSaga
    /\ prepared = NoPrepare
    /\ statics = NoStatics
    /\ checked = NoCheck
    /\ executed = NoExecute
    /\ er = NoEventRouter
    /\ qb = NoQuery
    /\ up = NoUpcast
    /\ handagg = NoHandAgg
    /\ table = NoTable

Next ==
    \/ \E suffix \in HandlerNames : On(suffix)
    \/ \E d \in Domains, n \in RejectedNames, b \in Behaviours : OnRejected(d, n, b)
    \/ \E c \in ContextualCommands : Dispatch(c)
    \/ Return

Spec == Init /\ [][Next]_vars

\* ------------------------------------------- examples/cpp/player aggregate
Tables == {<<"t1">>}
Names == {<<>>, <<"Ada">>}
Emails == {<<>>, <<"a@x">>}
Amounts == 0..MaxAmount
TransferAmounts == (0 - MaxAmount)..MaxAmount

ExamplesUrl(name) == TYPE_URL_PREFIX \o <<"examples", ".", name>>

PlayerCommand(name, display_name, email, amount, table_root) ==
    [type_url |-> ExamplesUrl(name),
     body |-> [display_name |-> display_name, email |-> email, amount |-> amount,
               table_root |-> table_root]]

PlayerCommands ==
    {PlayerCommand("RegisterPlayer", n, e, 0, <<>>) : n \in Names, e \in Emails} \cup
    {PlayerCommand("DepositFunds", <<>>, <<>>, a, <<>>) : a \in Amounts} \cup
    {PlayerCommand("WithdrawFunds", <<>>, <<>>, a, <<>>) : a \in Amounts} \cup
    {PlayerCommand("ReserveFunds", <<>>, <<>>, a, t) : a \in Amounts, t \in Tables} \cup
    {PlayerCommand("ReleaseFunds", <<>>, <<>>, 0, t) : t \in Tables} \cup
    {PlayerCommand("TransferFunds", <<>>, <<>>, a, <<>>) : a \in TransferAmounts} \cup
    {PlayerCommand("SitOut", <<>>, <<>>, 0, <<>>)}

\* The command books a client sends: no page, or one command page.
PlayerCommandBooks == {<<>>} \cup {<<c>> : c \in PlayerCommands}

\* std::string::find(token) != npos, on a type URL
Contains(type_url, token) == \E i \in 1..Len(type_url) : type_url[i] = token

\* PlayerState{} as default-constructed
EmptyPlayerState ==
    [player_id |-> <<>>, display_name |-> <<>>, email |-> <<>>, bankroll |-> 0,
     reserved_funds |-> 0, table_reservations |-> [t \in {} |-> 0], status |-> <<>>]

exists(state) == state.player_id # <<>>
available_balance(state) == state.bankroll - state.reserved_funds

\* PlayerState::apply_event; every event is packed by Any::PackFrom, so its
\* UnpackTo succeeds whenever the tail of the type URL names it
apply_event(state, event_any) ==
    LET type_url == event_any.type_url
        event == event_any.body
    IN IF EndsWith(type_url, <<"PlayerRegistered">>)
       THEN [state EXCEPT !.player_id = <<"player_">> \o event.email,
                          !.display_name = event.display_name,
                          !.email = event.email,
                          !.status = <<"active">>,
                          !.bankroll = 0,
                          !.reserved_funds = 0]
       ELSE IF EndsWith(type_url, <<"FundsDeposited">>)
       THEN [state EXCEPT !.bankroll = event.new_balance]
       ELSE IF EndsWith(type_url, <<"FundsWithdrawn">>)
       THEN [state EXCEPT !.bankroll = event.new_balance]
       ELSE IF EndsWith(type_url, <<"FundsReserved">>)
       THEN [state EXCEPT !.reserved_funds = event.new_reserved_balance,
                          !.table_reservations =
                              [t \in DOMAIN state.table_reservations \cup {event.table_root} |->
                                  IF t = event.table_root THEN event.amount
                                  ELSE state.table_reservations[t]]]
       ELSE IF EndsWith(type_url, <<"FundsReleased">>)
       THEN [state EXCEPT !.reserved_funds = event.new_reserved_balance,
                          !.table_reservations =
                              [t \in DOMAIN state.table_reservations \ {event.table_root} |->
                                  state.table_reservations[t]]]
       ELSE IF EndsWith(type_url, <<"FundsTransferred">>)
       THEN [state EXCEPT !.bankroll = event.new_balance]
       ELSE state

RECURSIVE apply_pages(_, _, _)
apply_pages(state, pages, i) ==
    IF i > Len(pages) THEN state
    ELSE apply_pages(apply_event(state, pages[i].event), pages, i + 1)

\* PlayerState::from_event_book
from_event_book(event_book) == apply_pages(EmptyPlayerState, event_book.pages, 1)

Accept(name, event) == [ok |-> TRUE, event |-> [type_url |-> ExamplesUrl(name), body |-> event]]
Reject(code, message) == [ok |-> FALSE, code |-> code, message |-> message]

NoEvent == [display_name |-> <<>>, email |-> <<>>, amount |-> 0, table_root |-> <<>>,
            new_balance |-> 0, new_available_balance |-> 0, new_reserved_balance |-> 0]

\* handlers::handle_register
handle_register(c, state) ==
    IF exists(state) THEN Reject("FAILED_PRECONDITION", "Player already exists")
    ELSE IF c.display_name = <<>> THEN Reject("INVALID_ARGUMENT", "display_name is required")
    ELSE IF c.email = <<>> THEN Reject("INVALID_ARGUMENT", "email is required")
    ELSE Accept("PlayerRegistered",
                [NoEvent EXCEPT !.display_name = c.display_name, !.email = c.email])

\* handlers::handle_deposit: guard, validate, compute
handle_deposit(c, state) ==
    IF ~exists(state) THEN Reject("FAILED_PRECONDITION", "Player does not exist")
    ELSE IF c.amount <= 0 THEN Reject("INVALID_ARGUMENT", "amount must be positive")
    ELSE Accept("FundsDeposited",
                [NoEvent EXCEPT !.amount = c.amount, !.new_balance = state.bankroll + c.amount])

\* handlers::handle_withdraw
handle_withdraw(c, state) ==
    IF ~exists(state) THEN Reject("FAILED_PRECONDITION", "Player does not exist")
    ELSE IF c.amount <= 0 THEN Reject("INVALID_ARGUMENT", "amount must be positive")
    ELSE IF c.amount > available_balance(state)
    THEN Reject("FAILED_PRECONDITION", "Insufficient funds")
    ELSE Accept("FundsWithdrawn",
                [NoEvent EXCEPT !.amount = c.amount, !.new_balance = state.bankroll - c.amount])

\* handlers::handle_reserve
handle_reserve(c, state) ==
    IF ~exists(state) THEN Reject("FAILED_PRECONDITION", "Player does not exist")
    ELSE IF c.amount <= 0 THEN Reject("INVALID_ARGUMENT", "amount must be positive")
    ELSE IF c.table_root \in DOMAIN state.table_reservations
    THEN Reject("FAILED_PRECONDITION", "Funds already reserved for this table")
    ELSE IF c.amount > available_balance(state)
    THEN Reject("FAILED_PRECONDITION", "Insufficient funds")
    ELSE Accept("FundsReserved",
                [NoEvent EXCEPT !.amount = c.amount,
                                !.table_root = c.table_root,
                                !.new_available_balance =
                                    state.bankroll - (state.reserved_funds + c.amount),
                                !.new_reserved_balance = state.reserved_funds + c.amount])

\* handlers::handle_release
handle_release(c, state) ==
    IF ~exists(state) THEN Reject("FAILED_PRECONDITION", "Player does not exist")
    ELSE IF c.table_root \notin DOMAIN state.table_reservations
    THEN Reject("FAILED_PRECONDITION", "No funds reserved for this table")
    ELSE IF state.table_reservations[c.table_root] = 0
    THEN Reject("FAILED_PRECONDITION", "No funds reserved for this table")
    ELSE LET reserved_for_table == state.table_reservations[c.table_root]
             new_reserved == state.reserved_funds - reserved_for_table
         IN Accept("FundsReleased",
                   [NoEvent EXCEPT !.amount = reserved_for_table,
                                   !.table_root = c.table_root,
                                   !.new_available_balance = state.bankroll - new_reserved,
                                   !.new_reserved_balance = new_reserved])

\* handlers::handle_transfer
handle_transfer(c, state) ==
    IF ~exists(state) THEN Reject("FAILED_PRECONDITION", "Player does not exist")
    ELSE Accept("FundsTransferred",
                [NoEvent EXCEPT !.amount = c.amount, !.new_balance = state.bankroll + c.amount])

\* The page Handle adds for one event: events->add_pages(), then
\* page->mutable_event()->PackFrom(event); the page's sequence is never set
\* and keeps the protobuf default
response_page(event) == [sequence |-> 0, event |-> event]

\* PlayerAggregateService::Handle: the status and the response's event pages
Handle(command_pages, event_book) ==
    IF Len(command_pages) = 0
    THEN [status |-> "INVALID_ARGUMENT", message |-> "No command pages", pages |-> <<>>]
    ELSE
    LET command_any == command_pages[1]
        type_url == command_any.type_url
        c == command_any.body
        state == from_event_book(event_book)
        r == IF Contains(type_url, "RegisterPlayer") THEN handle_register(c, state)
             ELSE IF Contains(type_url, "DepositFunds") THEN handle_deposit(c, state)
             ELSE IF Contains(type_url, "WithdrawFunds") THEN handle_withdraw(c, state)
             ELSE IF Contains(type_url, "ReserveFunds") THEN handle_reserve(c, state)
             ELSE IF Contains(type_url, "ReleaseFunds") THEN handle_release(c, state)
             ELSE IF Contains(type_url, "TransferFunds") THEN handle_transfer(c, state)
             ELSE Reject("INVALID_ARGUMENT", "Unknown command type")
    IN IF r.ok
       THEN [status |-> "OK", message |-> "", pages |-> <<response_page(r.event)>>]
       ELSE [status |-> r.code, message |-> r.message, pages |-> <<>>]

\* The event book the next command sees: the accepted response's pages
\* appended to the prior book
Appended(event_book, pages) == [pages |-> event_book.pages \o pages]

\* One command sent to the player aggregate of one root, from the request to
\* the stored outcome
HandleCommand(command_pages) ==
    LET r == Handle(command_pages, book) IN
    /\ Len(book.pages) < MaxCommands
    /\ last' = [status |-> r.status, message |-> r.message, command |-> command_pages,
                pages |-> r.pages]
    /\ book' = IF r.status = "OK" THEN Appended(book, r.pages) ELSE book
    /\ UNCHANGED exceptPlayer

NextPlayer == \E command_pages \in PlayerCommandBooks : HandleCommand(command_pages)

SpecPlayer == Init /\ [][NextPlayer]_vars

\* ------------------------------------------------------- reading a dispatch
\* A dispatch of a router built with its state rebuilder has returned or thrown
\* (without the rebuilder every dispatch throws std::runtime_error from get_state)
Returned == pc = "done" /\ rebuild_
HasPages == Len(cmd.command.pages) > 0
FirstAny == cmd.command.pages[1]
PriorPages == IF cmd.has_events THEN Len(cmd.events.pages) ELSE 0

\* The message name of a type name: the part after its last "."
MessageName(type_name) ==
    LET at == {i \in 1..Len(type_name) : type_name[i] = "."}
    IN IF at = {} THEN type_name ELSE SubSeq(type_name, Max(at) + 1, Len(type_name))

\* The first page's payload is the Notification carrier
CarriesNotification ==
    /\ HasPages
    /\ FirstAny.type_url # <<>>
    /\ MessageName(type_name_from_url(FirstAny.type_url)) = <<"Notification">>

\* The notification the caller sent wraps a rejected command of (domain d, type c)
Targets(d, c) ==
    /\ CarriesNotification
    /\ FirstAny.body.kind = "notification"
    /\ FirstAny.body.has_payload
    /\ AnyIs(FirstAny.body.payload, FN_RejectionNotification)
    /\ FirstAny.body.payload.body.has_rejected_command
    /\ Len(FirstAny.body.payload.body.rejected_command.pages) > 0
    /\ FirstAny.body.payload.body.rejected_command.domain = d
    /\ type_name_from_url(FirstAny.body.payload.body.rejected_command.pages[1].type_url) = c

Registered(d, c, behaviour) ==
    /\ RejectionKey(d, c) \in DOMAIN rejection_handlers_
    /\ rejection_handlers_[RejectionKey(d, c)] = behaviour

Invoked(op) == {i \in 1..Len(calls) : calls[i].op = op}

\* ------------------------------------------------------------------ claims

\* C1: a notification whose rejected command targets (D, C), with a handler
\* registered by on_rejected(D, C) that returns events, is answered with
\* exactly those events (and so with no revocation).
C1_CompensationEvents ==
    \A d \in Domains, c \in RejectedNames :
        (Returned /\ Targets(d, c) /\ Registered(d, c, "events"))
            => response = Events(CompensationEvents)

\* C2: a rejection handler that returns only a notification makes the
\* response carry that notification and no events.
C2_ForwardsNotification ==
    \A d \in Domains, c \in RejectedNames :
        (Returned /\ Targets(d, c) /\ Registered(d, c, "notification"))
            => response = Forward(FirstAny.body)

\* C3: a handler registered for the rejected (domain, command) key is invoked,
\* and when it returns neither events nor a notification the response is a
\* Revocation with emit_system_revocation = false whose reason is
\* "<domain> handled rejection for <key>".
C3_HandledRevocation ==
    \A d \in Domains, c \in RejectedNames, b \in Behaviours :
        (Returned /\ Targets(d, c) /\ Registered(d, c, b))
            => /\ \E i \in Invoked("on_rejected") : calls[i].key = RejectionKey(d, c)
               /\ b = "empty" =>
                    /\ response.kind = "revocation"
                    /\ response.emit_system_revocation = FALSE
                    /\ EndsWith(response.reason,
                                domain_ \o <<" handled rejection for ">> \o RejectionKey(d, c))

\* C4: with no rejection handler registered, every notification-carrying
\* command is answered with a Revocation with emit_system_revocation = true,
\* never with an error and never with events.
C4_DefaultRevocation ==
    (Returned /\ CarriesNotification /\ DOMAIN rejection_handlers_ = {})
        => /\ response.kind = "revocation"
           /\ response.emit_system_revocation = TRUE

\* C5: a command whose first page's payload type name is Notification goes
\* through rejection dispatch: no ordinary command handler is looked up or
\* run for it and it never fails with "Unknown command type".
C5_CarrierRoutedToRejection ==
    (Returned /\ CarriesNotification)
        => /\ response.kind \in {"events", "notification", "revocation"}
           /\ Invoked("on") = {}

C7_EmptyBookFailsFirst ==
    (Returned /\ (~HasPages \/ FirstAny.type_url = <<>>))
        => /\ response.kind = "error"
           /\ response.error = "InvalidArgument"
           /\ calls = <<>>

C10_SequencesFromZero ==
    \A i \in 1..Len(book.pages) : book.pages[i].sequence = i - 1

\* ------------------------------------------------ rebuilding from an event book
\* Type names appliers are registered under (ANGZARR_APPLIES(T) registers #T,
\* StateRouter::on<Event> registers Event::descriptor()->name()).
ApplierNames == {<<"HandStarted">>, <<"PotAwarded">>}

\* Type names of the events in a book: the registered short names, and the
\* full name Any::PackFrom writes.  Every type URL carries the standard prefix.
EventTypeNames == ApplierNames \cup {<<"examples", ".", "HandStarted">>}

\* EventPage: has_event() and the event Any
EventPages ==
    {[has_event |-> FALSE, event |-> EmptyAny]} \cup
    {[has_event |-> TRUE, event |-> [type_url |-> TYPE_URL_PREFIX \o n, body |-> EmptyBody]] :
        n \in EventTypeNames}

RECURSIVE SeqsUpTo(_, _)
SeqsUpTo(S, n) ==
    IF n = 0 THEN {<<>>}
    ELSE LET shorter == SeqsUpTo(S, n - 1)
         IN shorter \cup {Append(q, x) : q \in {r \in shorter : Len(r) = n - 1}, x \in S}

\* const EventBook* : nullptr, or a book of up to MaxPages pages
PriorBooks ==
    {[present |-> FALSE, pages |-> <<>>]} \cup
    {[present |-> TRUE, pages |-> p] : p \in SeqsUpTo(EventPages, MaxPages)}

\* The user's applier.  The state records every applier call and its argument
\* in order, so that any two runs that differ in the calls made differ in state.
applier(state, event_any) == Append(state, event_any)

\* create_empty_state(), factory_()
create_empty_state == <<>>

\* an applier that is also run for event types nobody registered
Aggregate_apply_event_always(registered, state, event_any) == applier(state, event_any)

\* Aggregate::apply_event
Aggregate_apply_event(registered, state, event_any) ==
    LET suffix == type_name_from_url(event_any.type_url)
    IN IF suffix \in registered THEN applier(state, event_any) ELSE state

RECURSIVE Aggregate_rebuild_pages(_, _, _, _)
Aggregate_rebuild_pages(registered, built, pages, i) ==
    IF i > Len(pages) THEN built
    ELSE IF ~pages[i].has_event
    THEN Aggregate_rebuild_pages(registered, built, pages, i + 1)
    ELSE Aggregate_rebuild_pages(
             registered,
             [state_ |-> Aggregate_apply_event(registered, built.state_, pages[i].event),
              exists_ |-> TRUE],
             pages, i + 1)

\* Aggregate::rebuild_state
Aggregate_rebuild_state(registered, event_book) ==
    LET empty == [state_ |-> create_empty_state, exists_ |-> FALSE]
    IN IF ~event_book.present THEN empty
       ELSE Aggregate_rebuild_pages(registered, empty, event_book.pages, 1)

RECURSIVE ProcessManager_rebuild_pages(_, _, _, _)
ProcessManager_rebuild_pages(registered, built, pages, i) ==
    IF i > Len(pages) THEN built
    ELSE IF ~pages[i].has_event
    THEN ProcessManager_rebuild_pages(registered, built, pages, i + 1)
    ELSE LET suffix == type_name_from_url(pages[i].event.type_url)
         IN IF suffix \in registered
            THEN ProcessManager_rebuild_pages(
                     registered,
                     [state_ |-> applier(built.state_, pages[i].event), exists_ |-> TRUE],
                     pages, i + 1)
            ELSE ProcessManager_rebuild_pages(registered, built, pages, i + 1)

\* ProcessManager::rebuild_state
ProcessManager_rebuild_state(registered, event_book) ==
    LET empty == [state_ |-> create_empty_state, exists_ |-> FALSE]
    IN IF ~event_book.present THEN empty
       ELSE ProcessManager_rebuild_pages(registered, empty, event_book.pages, 1)

\* StateRouter::apply_event: the first registered suffix whose URL matches;
\* at most one suffix can equal the rest of the URL
StateRouter_apply_event(registered, state, event_any) ==
    IF \E suffix \in registered : type_url_matches(event_any.type_url, suffix)
    THEN applier(state, event_any)
    ELSE state

RECURSIVE StateRouter_apply_pages(_, _, _, _)
StateRouter_apply_pages(registered, state, pages, i) ==
    IF i > Len(pages) THEN state
    ELSE IF ~pages[i].has_event THEN StateRouter_apply_pages(registered, state, pages, i + 1)
    ELSE StateRouter_apply_pages(
             registered, StateRouter_apply_event(registered, state, pages[i].event), pages, i + 1)

\* StateRouter::with_event_book
StateRouter_with_event_book(registered, event_book) ==
    IF ~event_book.present THEN create_empty_state
    ELSE StateRouter_apply_pages(registered, create_empty_state, event_book.pages, 1)

\* ANGZARR_APPLIES / register_applier / StateRouter::on<Event>; the registries
\* are filled during static initialisation and construction, before any rebuild
RegisterApplier(component, name) ==
    /\ ~rebuilt.done
    /\ ~pm.done
    /\ name \notin appliers[component]
    /\ appliers' = [appliers EXCEPT ![component] = @ \cup {name}]
    /\ UNCHANGED <<rebuilt, pm>>
    /\ UNCHANGED <<routerVars, playerVars, handVars, flowVars, sagaVars, serviceVars, staticVars, validationVars, executeVars, eventRouterVars, queryVars, upcasterVars, handAggVars, tableVars>>

\* Each component rebuilds its state from the same event book
Rebuild(event_book) ==
    /\ rebuilt' =
           [done |-> TRUE, present |-> event_book.present, pages |-> event_book.pages,
            aggregate |-> Aggregate_rebuild_state(appliers["Aggregate"], event_book),
            process_manager |->
                ProcessManager_rebuild_state(appliers["ProcessManager"], event_book),
            state_router |-> StateRouter_with_event_book(appliers["StateRouter"], event_book)]
    /\ UNCHANGED appliers
    /\ UNCHANGED exceptRebuild

NextRebuild ==
    \/ \E c \in Components, n \in ApplierNames : RegisterApplier(c, n)
    \/ \E b \in PriorBooks : Rebuild(b)

SpecRebuild == Init /\ [][NextRebuild]_vars

\* The book of the last rebuild
RebuiltBook == [present |-> rebuilt.present, pages |-> rebuilt.pages]

\* The type name of a standard-prefix URL: what follows the prefix
TypeOf(type_url) == SubSeq(type_url, Len(TYPE_URL_PREFIX) + 1, Len(type_url))

\* The page carries an event whose type has no applier in the registry
UnknownPage(registered, page) == page.has_event /\ TypeOf(page.event.type_url) \notin registered

\* E': the book without the pages of unregistered event types
Omitting(registered, event_book) ==
    [present |-> event_book.present,
     pages |-> SelectSeq(event_book.pages, LAMBDA page : ~UnknownPage(registered, page))]

HasUnknownPage(registered) ==
    /\ rebuilt.done
    /\ \E i \in 1..Len(rebuilt.pages) : UnknownPage(registered, rebuilt.pages[i])

\* C11 (as stated): a book with pages of unregistered event types rebuilds to
\* the same state and the same exists flag as the book without those pages.
C11_SameStateAndExists ==
    /\ HasUnknownPage(appliers["Aggregate"]) =>
           rebuilt.aggregate =
               Aggregate_rebuild_state(appliers["Aggregate"],
                                       Omitting(appliers["Aggregate"], RebuiltBook))
    /\ HasUnknownPage(appliers["ProcessManager"]) =>
           rebuilt.process_manager =
               ProcessManager_rebuild_state(appliers["ProcessManager"],
                                            Omitting(appliers["ProcessManager"], RebuiltBook))

\* C11 (amended): a book with pages of unregistered event types rebuilds to the
\* same state as the book without those pages, in the aggregate, the process
\* manager and the state router.
C11_SameState ==
    /\ HasUnknownPage(appliers["Aggregate"]) =>
           rebuilt.aggregate.state_ =
               Aggregate_rebuild_state(appliers["Aggregate"],
                                       Omitting(appliers["Aggregate"], RebuiltBook)).state_
    /\ HasUnknownPage(appliers["ProcessManager"]) =>
           rebuilt.process_manager.state_ =
               ProcessManager_rebuild_state(appliers["ProcessManager"],
                                            Omitting(appliers["ProcessManager"], RebuiltBook)).state_
    /\ HasUnknownPage(appliers["StateRouter"]) =>
           rebuilt.state_router =
               StateRouter_with_event_book(appliers["StateRouter"],
                                           Omitting(appliers["StateRouter"], RebuiltBook))

\* A book mixing a registered and an unregistered event type was rebuilt by all
\* three components, and the registered event was applied
C11_Witness ==
    /\ \A c \in Components : HasUnknownPage(appliers[c])
    /\ Len(rebuilt.aggregate.state_) > 0
    /\ Len(rebuilt.process_manager.state_) > 0
    /\ Len(rebuilt.state_router) > 0

\* The prior history is non-empty: the book is there and has an event page
HasHistory ==
    /\ rebuilt.present
    /\ \E i \in 1..Len(rebuilt.pages) : rebuilt.pages[i].has_event

\* C13: after a rebuild the exists flag is false for an absent or empty event
\* book and true for every book with at least one event page.
C13_ExistsIffHistory ==
    rebuilt.done =>
        /\ rebuilt.aggregate.exists_ = HasHistory
        /\ rebuilt.process_manager.exists_ = HasHistory

\* ------------------------------------------ examples/cpp/hand aggregate state
\* A type name is a token sequence; "CommunityCardsDealt" is the two tokens
\* "Community" "CardsDealt", so that a search for "CardsDealt" finds it in both
\* names, as std::string::find does on the characters.
HandUrl(name) == TYPE_URL_PREFIX \o <<"examples", ".">> \o name
HandFullName(name) == <<"examples", ".">> \o name

\* std::string::find(needle) != npos
Find(type_url, needle) ==
    \E i \in 1..(Len(type_url) - Len(needle) + 1) :
        SubSeq(type_url, i, i + Len(needle) - 1) = needle

\* The deck: the suits in the order of the loop, ranks MinRank..MaxRank
\* (two of the four suits, to keep the shuffles countable)
Suits == <<"CLUBS", "DIAMONDS">>
MinRank == 2
MaxRank == 2
NumRanks == MaxRank - MinRank + 1
DeckSize == Len(Suits) * NumRanks
DeckInOrder ==
    [i \in 1..DeckSize |->
        [suit |-> Suits[((i - 1) \div NumRanks) + 1], rank |-> MinRank + ((i - 1) % NumRanks)]]

\* What std::shuffle seeded from std::random_device can produce: the deck in
\* any order
DeckOrders ==
    {[i \in 1..DeckSize |-> DeckInOrder[q[i]]] :
        q \in {r \in [1..DeckSize -> 1..DeckSize] :
                  \A i, j \in 1..DeckSize : r[i] = r[j] => i = j}}

\* std::shuffle of a deck of distinct cards; p is the full deck in the order
\* this shuffle leaves it, and the cards of `deck` come out in that order
shuffle(deck, p) ==
    SelectSeq(p, LAMBDA c : \E k \in 1..Len(deck) : deck[k] = c)

\* std::hex of the bytes of a root: one-to-one, and not the bytes themselves
Hex(bytes) == [hex |-> bytes]

\* HandState::get_player_mut: the positions holding the root (one at most here)
get_player_mut(players, player_root) ==
    {position \in DOMAIN players : players[position].player_root = player_root}

NewPlayerHandInfo(player) ==
    [player_root |-> player.player_root, position |-> player.position, hole_cards |-> <<>>,
     stack |-> player.stack, bet_this_round |-> 0, total_invested |-> 0,
     has_acted |-> FALSE, has_folded |-> FALSE, is_all_in |-> FALSE]

\* the cards the player_cards entries give to one root, in order
RECURSIVE cards_of(_, _, _)
cards_of(player_cards, player_root, i) ==
    IF i > Len(player_cards) THEN <<>>
    ELSE (IF player_cards[i].player_root = player_root THEN player_cards[i].cards ELSE <<>>)
         \o cards_of(player_cards, player_root, i + 1)

\* HandState::apply_event, CardsDealt branch
apply_cards_dealt(state, event, p) ==
    LET named == {event.players[i].position : i \in 1..Len(event.players)}
        entry(position) ==
            event.players[Max({i \in 1..Len(event.players) :
                                   event.players[i].position = position})]
        seated == [position \in DOMAIN state.players \cup named |->
                      IF position \in named THEN NewPlayerHandInfo(entry(position))
                      ELSE state.players[position]]
        players == [position \in DOMAIN seated |->
                       [seated[position] EXCEPT
                           !.hole_cards = @ \o cards_of(event.player_cards,
                                                        seated[position].player_root, 1)]]
        dealt_cards ==
            {c \in {p[k] : k \in 1..Len(p)} :
                \E i \in 1..Len(event.player_cards) :
                    /\ get_player_mut(seated, event.player_cards[i].player_root) # {}
                    /\ \E k \in 1..Len(event.player_cards[i].cards) :
                           event.player_cards[i].cards[k] = c}
        remaining == SelectSeq(p, LAMBDA c : c \notin dealt_cards)
        main_pot == [amount |-> 0, pot_type |-> "main",
                     eligible_players |-> {players[position].player_root :
                                              position \in DOMAIN players}]
    IN [state EXCEPT !.hand_id = <<Hex(event.table_root), "_", event.hand_number>>,
                     !.table_root = event.table_root,
                     !.hand_number = event.hand_number,
                     !.game_variant = event.game_variant,
                     !.dealer_position = event.dealer_position,
                     !.status = <<"betting">>,
                     !.current_phase = "PREFLOP",
                     !.players = players,
                     !.remaining_deck = shuffle(remaining, p),
                     !.pots = <<main_pot>>]

\* pots[0].amount = pot_total, when there is a pot
with_pot_total(pots, pot_total) ==
    IF pots = <<>> THEN pots ELSE [pots EXCEPT ![1].amount = pot_total]

\* HandState::apply_event, BlindPosted branch
apply_blind_posted(state, event) ==
    LET found == get_player_mut(state.players, event.player_root)
        position == CHOOSE q \in found : TRUE
        posted == IF found = {} THEN state
                  ELSE [state EXCEPT
                           !.players[position].stack = event.player_stack,
                           !.players[position].bet_this_round = event.amount,
                           !.players[position].total_invested = @ + event.amount,
                           !.small_blind_position =
                               IF event.blind_type = "small" THEN position ELSE @,
                           !.small_blind = IF event.blind_type = "small" THEN event.amount ELSE @,
                           !.big_blind_position =
                               IF event.blind_type = "big" THEN position ELSE @,
                           !.big_blind = IF event.blind_type = "big" THEN event.amount ELSE @,
                           !.current_bet = IF event.blind_type = "big" THEN event.amount ELSE @,
                           !.min_raise = IF event.blind_type = "big" THEN event.amount ELSE @]
    IN [posted EXCEPT !.pots = with_pot_total(@, event.pot_total), !.status = <<"betting">>]

\* HandState::apply_event, ActionTaken branch
apply_action_taken(state, event) ==
    LET found == get_player_mut(state.players, event.player_root)
        position == CHOOSE q \in found : TRUE
        adds == event.action \in {"CALL", "BET", "RAISE", "ALL_IN"}
        acted == [state EXCEPT
                     !.players[position].stack = event.player_stack,
                     !.players[position].has_acted = TRUE,
                     !.players[position].has_folded = IF event.action = "FOLD" THEN TRUE ELSE @,
                     !.players[position].is_all_in = IF event.action = "ALL_IN" THEN TRUE ELSE @,
                     !.players[position].bet_this_round = IF adds THEN @ + event.amount ELSE @,
                     !.players[position].total_invested = IF adds THEN @ + event.amount ELSE @]
        bet == acted.players[position].bet_this_round
        raised == IF event.action \in {"BET", "RAISE", "ALL_IN"} /\ bet > acted.current_bet
                  THEN [acted EXCEPT !.current_bet = bet,
                                     !.min_raise = Max({@, bet - acted.current_bet})]
                  ELSE acted
        after == IF found = {} THEN state ELSE raised
    IN [after EXCEPT !.pots = with_pot_total(@, event.pot_total), !.action_on_position = -1]

\* HandState::apply_event, CommunityCardsDealt branch
apply_community_cards_dealt(state, event) ==
    [state EXCEPT
        !.community_cards = @ \o event.cards,
        !.remaining_deck =
            SelectSeq(@, LAMBDA c : ~\E k \in 1..Len(event.cards) : event.cards[k] = c),
        !.current_phase = event.phase,
        !.status = <<"betting">>,
        !.players = [position \in DOMAIN @ |->
                        [@[position] EXCEPT !.bet_this_round = 0, !.has_acted = FALSE]],
        !.current_bet = 0]

\* the amounts the winners entries award to one root
RECURSIVE winnings(_, _, _)
winnings(winners, player_root, i) ==
    IF i > Len(winners) THEN 0
    ELSE (IF winners[i].player_root = player_root THEN winners[i].amount ELSE 0)
         + winnings(winners, player_root, i + 1)

\* HandState::apply_event, PotAwarded branch
apply_pot_awarded(state, event) ==
    [state EXCEPT
        !.players = [position \in DOMAIN @ |->
                        [@[position] EXCEPT
                            !.stack = @ + winnings(event.winners, state.players[position].player_root, 1)]]]

\* The branch of HandState::apply_event a type URL takes: the first search
\* of the if / else-if chain that finds its needle
HandBranches ==
    <<(<<"CardsDealt">>), (<<"BlindPosted">>), (<<"ActionTaken">>),
      (<<"Community", "CardsDealt">>), (<<"ShowdownStarted">>), (<<"PotAwarded">>),
      (<<"HandComplete">>)>>

hand_branch(type_url) ==
    LET hits == {k \in 1..Len(HandBranches) : Find(type_url, HandBranches[k])}
    IN IF hits = {} THEN <<>> ELSE HandBranches[Min(hits)]

\* HandState::apply_event; p is the order the shuffle of this call produces
hand_apply_event(state, event_any, p) ==
    LET branch == hand_branch(event_any.type_url)
        unpacked == AnyIs(event_any, HandFullName(branch))
        event == event_any.body
    IN IF branch = <<"CardsDealt">>
       THEN IF unpacked THEN apply_cards_dealt(state, event, p) ELSE state
       ELSE IF branch = <<"BlindPosted">>
       THEN IF unpacked THEN apply_blind_posted(state, event) ELSE state
       ELSE IF branch = <<"ActionTaken">>
       THEN IF unpacked THEN apply_action_taken(state, event) ELSE state
       ELSE IF branch = <<"Community", "CardsDealt">>
       THEN IF unpacked THEN apply_community_cards_dealt(state, event) ELSE state
       ELSE IF branch = <<"ShowdownStarted">>
       THEN [state EXCEPT !.status = <<"showdown">>]
       ELSE IF branch = <<"PotAwarded">>
       THEN IF unpacked THEN apply_pot_awarded(state, event) ELSE state
       ELSE IF branch = <<"HandComplete">>
       THEN [state EXCEPT !.status = <<"complete">>]
       ELSE state

\* The order the shuffle of page i produces; pages that do not shuffle have none
IdentityOrder == DeckInOrder
order_at(shuffles, i) == IF i \in DOMAIN shuffles THEN shuffles[i] ELSE IdentityOrder

RECURSIVE hand_apply_pages(_, _, _, _)
hand_apply_pages(state, pages, shuffles, i) ==
    IF i > Len(pages) THEN state
    ELSE hand_apply_pages(hand_apply_event(state, pages[i].event, order_at(shuffles, i)),
                          pages, shuffles, i + 1)

\* HandState::from_event_book; shuffles[i] is the order the shuffle of page i produces
hand_from_event_book(pages, shuffles) == hand_apply_pages(EmptyHandState, pages, shuffles, 1)

\* HandState::exists
hand_exists(state) == state.status # <<>>

\* Events of one hand at one table, as the hand aggregate's handlers pack them
HandEvent(name, event) == [type_url |-> HandUrl(name), body |-> event]

HandPlayers ==
    <<[player_root |-> "p1", position |-> 0, stack |-> 2],
      [player_root |-> "p2", position |-> 1, stack |-> 2]>>

CardsDealtEvent(player_cards) ==
    HandEvent(<<"CardsDealt">>,
              [table_root |-> "t1", hand_number |-> 1, game_variant |-> "TEXAS_HOLDEM",
               dealer_position |-> 0, players |-> HandPlayers, player_cards |-> player_cards])

BlindPostedEvent(player_root, blind_type, amount, player_stack, pot_total) ==
    HandEvent(<<"BlindPosted">>,
              [player_root |-> player_root, blind_type |-> blind_type, amount |-> amount,
               player_stack |-> player_stack, pot_total |-> pot_total])

ActionTakenEvent(player_root, action, amount, player_stack, pot_total) ==
    HandEvent(<<"ActionTaken">>,
              [player_root |-> player_root, action |-> action, amount |-> amount,
               player_stack |-> player_stack, pot_total |-> pot_total])

HandEvents ==
    {CardsDealtEvent(<<>>),
     CardsDealtEvent(<<[player_root |-> "p1", cards |-> <<DeckInOrder[1]>>]>>),
     BlindPostedEvent("p1", "small", 1, 1, 1),
     BlindPostedEvent("p2", "big", 2, 0, 3),
     ActionTakenEvent("p1", "CALL", 1, 0, 4),
     ActionTakenEvent("p2", "FOLD", 0, 0, 3),
     ActionTakenEvent("p1", "ALL_IN", 2, 0, 5),
     HandEvent(<<"Community", "CardsDealt">>, [cards |-> <<DeckInOrder[DeckSize]>>, phase |-> "FLOP"]),
     HandEvent(<<"ShowdownStarted">>, EmptyBody),
     HandEvent(<<"PotAwarded">>, [winners |-> <<[player_root |-> "p1", amount |-> 3]>>]),
     HandEvent(<<"HandComplete">>, EmptyBody)}

\* The event books of a hand: up to MaxPages pages
HandBooks == SeqsUpTo({[event |-> e] : e \in HandEvents}, MaxPages)

\* The pages whose rebuild reaches the shuffle
ShufflingPages(pages) ==
    {i \in 1..Len(pages) :
        /\ hand_branch(pages[i].event.type_url) = <<"CardsDealt">>
        /\ AnyIs(pages[i].event, HandFullName(<<"CardsDealt">>))}

\* One rebuild of the hand state from an event book (the first thing every
\* command of the hand aggregate does)
RebuildHand(pages, shuffles) ==
    /\ hand' = [done |-> TRUE, pages |-> pages,
                branches |-> [i \in 1..Len(pages) |-> hand_branch(pages[i].event.type_url)],
                state |-> hand_from_event_book(pages, shuffles)]
    /\ UNCHANGED exceptHand

NextHand ==
    \E pages \in HandBooks :
        \E shuffles \in [ShufflingPages(pages) -> DeckOrders] : RebuildHand(pages, shuffles)

SpecHand == Init /\ [][NextHand]_vars

\* C12: rebuilding state from the same event book twice yields equal states.
C12_RebuildDeterministic ==
    [][(hand.done /\ hand'.done /\ hand'.pages = hand.pages) => hand'.state = hand.state]_vars

\* C14: an event is handled as type N only when its type URL is exactly
\* "type.googleapis.com/" + N (N qualified as PackFrom writes it); a type name
\* that merely contains or ends with N, such as CommunityCardsDealt against
\* CardsDealt, is not handled as N.
C14_ExactTypeMatch ==
    hand.done =>
        \A i \in 1..Len(hand.pages) :
            hand.branches[i] # <<>> =>
                hand.pages[i].event.type_url = TYPE_URL_PREFIX \o HandFullName(hand.branches[i])

\* ------------------------------------------------ ProcessManager::dispatch
\* Names react handlers are registered under (ANGZARR_REACTS_TO(T) registers #T)
ReactNames == ApplierNames

\* The rejection key a process manager may register (ANGZARR_REJECTED)
PMRejectionKey == RejectionKey(<<"inventory">>, <<"ReserveStock">>)

\* Notification pages a coordinator may deliver: the type URL the dispatch loop
\* looks for, with no payload or with a rejection of inventory/ReserveStock
PMNotifications ==
    {DefaultNotification,
     [kind |-> "notification", has_payload |-> TRUE,
      payload |-> PackFrom([kind |-> "rejection", has_rejected_command |-> TRUE,
                            rejected_command |->
                                [domain |-> <<"inventory">>,
                                 pages |-> <<[type_url |-> TYPE_URL_PREFIX \o <<"ReserveStock">>,
                                              body |-> EmptyBody]>>]],
                           FN_RejectionNotification)]}

NotificationPages ==
    {[has_event |-> TRUE, event |-> [type_url |-> TYPE_URL_PREFIX \o <<"Notification">>, body |-> n]] :
        n \in PMNotifications}

\* Cover of a source book: none, one without correlation ID, one with
SourceCovers ==
    {[has_cover |-> FALSE, correlation_id |-> <<>>],
     [has_cover |-> TRUE, correlation_id |-> <<>>],
     [has_cover |-> TRUE, correlation_id |-> <<"corr-1">>]}

SourcePages == SeqsUpTo(EventPages \cup NotificationPages, MaxPages)

\* The process manager's own history: absent, empty, or one page
PMPriorBooks ==
    {[present |-> FALSE, pages |-> <<>>], [present |-> TRUE, pages |-> <<>>]} \cup
    {[present |-> TRUE, pages |-> <<page>>] : page \in EventPages}

\* ProcessManager::pack_commands, called by the react handler with the
\* correlation ID the dispatch passed to it
pack_commands(command, domain, correlation_id) ==
    <<[domain |-> domain, correlation_id |-> correlation_id, pages |-> <<command>>]>>

\* The user's react handler for one event: one command for the event
react(event_any, correlation_id) ==
    pack_commands([type_url |-> TYPE_URL_PREFIX \o <<"Command">>, body |-> event_any.body],
                  <<"target">>, correlation_id)

\* ProcessManager::dispatch_rejection: the key of the rejected command
PM_rejection_key(notification) ==
    LET rejection == IF notification.has_payload
                     THEN UnpackTo(notification.payload, FN_RejectionNotification, DefaultRejection)
                     ELSE DefaultRejection
        found == /\ notification.has_payload
                 /\ AnyIs(notification.payload, FN_RejectionNotification)
                 /\ rejection.has_rejected_command
                 /\ Len(rejection.rejected_command.pages) > 0
        domain == IF found THEN rejection.rejected_command.domain ELSE <<>>
        command_suffix == IF found
                          THEN type_name_from_url(rejection.rejected_command.pages[1].type_url)
                          ELSE <<>>
    IN domain \o <<"/">> \o command_suffix

\* the applier step of the dispatch loop left out
ProcessManager_apply_skipped(registered, state, event_any) == state

\* ProcessManager::dispatch, the applier step of one page
ProcessManager_apply(registered, state, event_any) ==
    LET suffix == type_name_from_url(event_any.type_url)
    IN IF suffix \in registered THEN applier(state, event_any) ELSE state

\* ProcessManager::dispatch, the page loop.  d holds state_, the commands so
\* far and the user callbacks made, each with the state it could observe.
RECURSIVE ProcessManager_dispatch_pages(_, _, _, _, _, _, _)
ProcessManager_dispatch_pages(registered, handlers, rejections, d, pages, i, correlation_id) ==
    IF i > Len(pages) THEN d
    ELSE IF ~pages[i].has_event
    THEN ProcessManager_dispatch_pages(registered, handlers, rejections, d, pages, i + 1,
                                       correlation_id)
    ELSE IF type_url_matches(pages[i].event.type_url, <<"Notification">>)
    THEN LET notification == UnpackTo(pages[i].event, FN_Notification, DefaultNotification)
             key == PM_rejection_key(notification)
             called == IF key \in rejections
                       THEN Append(d.calls, [op |-> "rejected", page |-> i, key |-> key,
                                             state |-> d.state_])
                       ELSE d.calls
         IN ProcessManager_dispatch_pages(registered, handlers, rejections,
                                          [d EXCEPT !.calls = called], pages, i + 1,
                                          correlation_id)
    ELSE LET suffix == type_name_from_url(pages[i].event.type_url)
             state == ProcessManager_apply(registered, d.state_, pages[i].event)
             handled == suffix \in handlers
             step == [state_ |-> state,
                      commands |-> IF handled
                                   THEN d.commands \o react(pages[i].event, correlation_id)
                                   ELSE d.commands,
                      calls |-> IF handled
                                THEN Append(d.calls, [op |-> "react", page |-> i, key |-> suffix,
                                                      state |-> state])
                                ELSE d.calls]
         IN ProcessManager_dispatch_pages(registered, handlers, rejections, step, pages, i + 1,
                                          correlation_id)

\* ProcessManager::dispatch
ProcessManager_dispatch(registered, handlers, rejections, source, prior_events) ==
    LET built == ProcessManager_rebuild_state(registered, prior_events)
        correlation_id == IF source.has_cover THEN source.correlation_id ELSE <<>>
        start == [state_ |-> built.state_, commands |-> <<>>, calls |-> <<>>]
        d == IF correlation_id = <<>> THEN start
             ELSE ProcessManager_dispatch_pages(registered, handlers, rejections, start,
                                                source.pages, 1, correlation_id)
    IN [state_ |-> d.state_, exists_ |-> built.exists_, commands |-> d.commands,
        calls |-> d.calls]

\* ANGZARR_REACTS_TO / register_event_handler
RegisterEventHandler(name) ==
    /\ ~pm.done
    /\ name \notin pm.handlers
    /\ pm' = [pm EXCEPT !.handlers = @ \cup {name}]
    /\ UNCHANGED appliers
    /\ UNCHANGED exceptPM

\* ANGZARR_REJECTED / register_rejection_handler
RegisterRejectionHandler(key) ==
    /\ ~pm.done
    /\ key \notin pm.rejection_handlers
    /\ pm' = [pm EXCEPT !.rejection_handlers = @ \cup {key}]
    /\ UNCHANGED appliers
    /\ UNCHANGED exceptPM

\* One call of ProcessManager::dispatch, from entry to return.  Every call
\* starts by overwriting state_ and exists_, so one call per behaviour shows
\* all there is to see.
DispatchPM(source, prior_events) ==
    LET r == ProcessManager_dispatch(appliers["ProcessManager"], pm.handlers,
                                     pm.rejection_handlers, source, prior_events)
    IN /\ ~pm.done
       /\ pm' = [pm EXCEPT !.done = TRUE,
                           !.has_cover = source.has_cover,
                           !.correlation_id = source.correlation_id,
                           !.pages = source.pages,
                           !.prior = prior_events,
                           !.state_ = r.state_,
                           !.exists_ = r.exists_,
                           !.commands = r.commands,
                           !.calls = r.calls]
       /\ UNCHANGED appliers
       /\ UNCHANGED exceptPM

NextPM ==
    \/ \E n \in ApplierNames : RegisterApplier("ProcessManager", n)
    \/ \E n \in ReactNames : RegisterEventHandler(n)
    \/ RegisterRejectionHandler(PMRejectionKey)
    \/ \E c \in SourceCovers, p \in SourcePages, prior \in PMPriorBooks :
           DispatchPM([has_cover |-> c.has_cover, correlation_id |-> c.correlation_id,
                       pages |-> p], prior)

SpecPM == Init /\ [][NextPM]_vars

\* The events of the pages an applier is registered for, in page order
AppliedEvents(pages) ==
    LET applied == SelectSeq(pages, LAMBDA page :
                       /\ page.has_event
                       /\ TypeOf(page.event.type_url) \in appliers["ProcessManager"])
    IN [k \in 1..Len(applied) |-> applied[k].event]

\* The react handler calls of the last dispatch
ReactCalls == {k \in 1..Len(pm.calls) : pm.calls[k].op = "react"}

Nullopt == [has_value |-> FALSE]
Some(command_book) == [has_value |-> TRUE, value |-> command_book]

\* The hand root a command is sent to: hand_id up to '_', decoded from hex
hand_root_of(hand_id) == hand_id[1].hex

\* A CommandBook as the build_*_cmd functions fill it: cover domain and root,
\* one page; the cover's correlation_id is never set and stays empty
FlowCommandBook(process, name, command) ==
    [domain |-> <<"hand">>, root |-> hand_root_of(process.hand_id), correlation_id |-> <<>>,
     pages |-> <<PackFrom(command, HandFullName(name))>>]

\* HandProcessManager::build_post_blind_cmd
build_post_blind_cmd(process, player, blind_type, amount) ==
    FlowCommandBook(process, <<"PostBlind">>,
                    [player_root |-> player.player_root, blind_type |-> blind_type,
                     amount |-> amount])

\* HandProcessManager::build_deal_community_cmd
build_deal_community_cmd(process, count) ==
    FlowCommandBook(process, <<"DealCommunityCards">>, [count |-> count])

\* The players still in the hand, in the iteration order of the players map
players_in_hand(process, player_order) ==
    SelectSeq(player_order, LAMBDA position :
        position \in DOMAIN process.players /\ ~process.players[position].has_folded)

\* HandProcessManager::build_award_pot_cmd
build_award_pot_cmd(process, player_order) ==
    LET in_hand == players_in_hand(process, player_order)
        n == Len(in_hand)
        split == IF n = 0 THEN 0 ELSE process.pot_total \div n
        remainder == IF n = 0 THEN 0 ELSE process.pot_total % n
        awards == [i \in 1..n |->
                      [player_root |-> process.players[in_hand[i]].player_root,
                       amount |-> split + (IF i - 1 < remainder THEN 1 ELSE 0),
                       pot_type |-> "main"]]
    IN FlowCommandBook(process, <<"AwardPot">>, [awards |-> awards])

\* HandProcessManager::post_next_blind
post_next_blind(process) ==
    IF ~process.small_blind_posted
    THEN IF process.small_blind_position \in DOMAIN process.players
         THEN Some(build_post_blind_cmd(process, process.players[process.small_blind_position],
                                        "small", process.small_blind))
         ELSE Nullopt
    ELSE IF ~process.big_blind_posted
    THEN IF process.big_blind_position \in DOMAIN process.players
         THEN Some(build_post_blind_cmd(process, process.players[process.big_blind_position],
                                        "big", process.big_blind))
         ELSE Nullopt
    ELSE Nullopt

\* HandProcessManager::find_next_active
find_next_active(process, after_position) ==
    LET positions == process.active_positions
        n == Len(positions)
        later == {i \in 1..n : positions[i] > after_position}
        start_idx == IF later = {} THEN 0 ELSE Min(later) - 1
        at(i) == positions[((start_idx + i) % n) + 1]
        active == {i \in 0..(n - 1) :
                      /\ at(i) \in DOMAIN process.players
                      /\ ~process.players[at(i)].has_folded
                      /\ ~process.players[at(i)].is_all_in}
    IN IF n = 0 \/ active = {} THEN -1 ELSE at(Min(active))

\* HandProcessManager::start_betting
start_betting(process) ==
    LET reset == [process EXCEPT
                     !.phase = "BETTING",
                     !.players = [position \in DOMAIN @ |->
                                     [@[position] EXCEPT !.bet_this_round = 0,
                                                         !.has_acted = FALSE]],
                     !.current_bet = 0]
    IN [reset EXCEPT !.action_on =
            IF reset.betting_phase = "PREFLOP"
            THEN find_next_active(reset, reset.big_blind_position)
            ELSE find_next_active(reset, reset.dealer_position)]

\* HandProcessManager::advance_action
advance_action(process) ==
    [process EXCEPT !.action_on = find_next_active(process, process.action_on)]

\* HandProcessManager::is_betting_complete: false at the first player still to
\* act or to match the bet; the closing expression holds for every count
is_betting_complete_unmatched(process) ==
    LET active == {position \in DOMAIN process.players :
                      /\ ~process.players[position].has_folded
                      /\ ~process.players[position].is_all_in}
        active_count == Cardinality(active)
    IN IF \E position \in active :
              process.players[position].bet_this_round < process.current_bet
       THEN FALSE
       ELSE active_count <= 1 \/ active_count > 0
is_betting_complete(process) ==
    LET active == {position \in DOMAIN process.players :
                      /\ ~process.players[position].has_folded
                      /\ ~process.players[position].is_all_in}
        active_count == Cardinality(active)
    IN IF \E position \in active :
              \/ ~process.players[position].has_acted
              \/ process.players[position].bet_this_round < process.current_bet
       THEN FALSE
       ELSE active_count <= 1 \/ active_count > 0

\* HandProcessManager::end_betting_round
end_betting_round(process, player_order) ==
    LET moved(phase) == [process EXCEPT !.phase = phase]
    IN IF Len(players_in_hand(process, player_order)) = 1
       THEN [process |-> moved("COMPLETE"),
             cmd |-> Some(build_award_pot_cmd(moved("COMPLETE"), player_order))]
       ELSE IF process.game_variant \in {"TEXAS_HOLDEM", "OMAHA"}
       THEN IF process.betting_phase = "PREFLOP"
            THEN [process |-> moved("DEALING_COMMUNITY"),
                  cmd |-> Some(build_deal_community_cmd(moved("DEALING_COMMUNITY"), 3))]
            ELSE IF process.betting_phase = "FLOP"
            THEN [process |-> moved("DEALING_COMMUNITY"),
                  cmd |-> Some(build_deal_community_cmd(moved("DEALING_COMMUNITY"), 1))]
            ELSE IF process.betting_phase = "TURN"
            THEN [process |-> moved("DEALING_COMMUNITY"),
                  cmd |-> Some(build_deal_community_cmd(moved("DEALING_COMMUNITY"), 1))]
            ELSE IF process.betting_phase = "RIVER"
            THEN [process |-> moved("SHOWDOWN"),
                  cmd |-> Some(build_award_pot_cmd(moved("SHOWDOWN"), player_order))]
            ELSE [process |-> process, cmd |-> Nullopt]
       ELSE [process |-> process, cmd |-> Nullopt]

\* PlayerState ps of start_hand
NewFlowPlayer(player) ==
    [player_root |-> player.player_root, position |-> player.position, stack |-> player.stack,
     bet_this_round |-> 0, total_invested |-> 0, has_acted |-> FALSE, has_folded |-> FALSE,
     is_all_in |-> FALSE]

\* processes_[hand_id] = process
Stored(processes, process) ==
    [hand_id \in DOMAIN processes \cup {process.hand_id} |->
        IF hand_id = process.hand_id THEN process ELSE processes[hand_id]]

\* HandProcessManager::start_hand
start_hand(processes, event) ==
    LET hand_id == <<Hex(event.hand_root), "_", event.hand_number>>
        listed == event.active_players
        named == {listed[i].position : i \in 1..Len(listed)}
        process ==
            [hand_id |-> hand_id, table_root |-> <<>>, hand_number |-> event.hand_number,
             game_variant |-> event.game_variant, phase |-> "DEALING",
             betting_phase |-> "BETTING_PHASE_UNSPECIFIED",
             players |-> [position \in named |->
                             NewFlowPlayer(listed[Max({i \in 1..Len(listed) :
                                                          listed[i].position = position})])],
             active_positions |->
                 SortSeq([i \in 1..Len(listed) |-> listed[i].position], LAMBDA a, b : a < b),
             dealer_position |-> event.dealer_position,
             small_blind_position |-> event.small_blind_position,
             big_blind_position |-> event.big_blind_position,
             action_on |-> -1, last_aggressor |-> -1,
             small_blind |-> event.small_blind, big_blind |-> event.big_blind,
             current_bet |-> 0, min_raise |-> 0, pot_total |-> 0,
             small_blind_posted |-> FALSE, big_blind_posted |-> FALSE,
             action_timeout_seconds |-> 30]
    IN [processes |-> Stored(processes, process), cmd |-> Nullopt]

\* HandProcessManager::handle_cards_dealt
handle_cards_dealt(processes, event) ==
    LET hand_id == <<Hex(event.table_root), "_", event.hand_number>>
    IN IF hand_id \notin DOMAIN processes THEN [processes |-> processes, cmd |-> Nullopt]
       ELSE LET process == [processes[hand_id] EXCEPT !.phase = "POSTING_BLINDS",
                                                      !.min_raise = processes[hand_id].big_blind]
            IN [processes |-> Stored(processes, process), cmd |-> post_next_blind(process)]

\* The first player of the process, in the iteration order of its players map,
\* whose root is the event's; {} when there is none
player_with_root(process, player_order, player_root) ==
    LET hits == {i \in 1..Len(player_order) :
                    /\ player_order[i] \in DOMAIN process.players
                    /\ process.players[player_order[i]].player_root = player_root}
    IN IF hits = {} THEN {} ELSE {player_order[Min(hits)]}

\* HandProcessManager::handle_blind_posted, the loop over processes_ from the
\* i-th process of the iteration order
RECURSIVE blind_posted_from(_, _, _, _, _)
blind_posted_from(processes, event, visit, player_order, i) ==
    IF i > Len(visit) THEN [processes |-> processes, cmd |-> Nullopt]
    ELSE IF processes[visit[i]].phase # "POSTING_BLINDS"
    THEN blind_posted_from(processes, event, visit, player_order, i + 1)
    ELSE LET process == processes[visit[i]]
             found == player_with_root(process, player_order, event.player_root)
             position == CHOOSE q \in found : TRUE
             paid == IF found = {} THEN process
                     ELSE [process EXCEPT !.players[position].stack = event.player_stack,
                                          !.players[position].bet_this_round = event.amount,
                                          !.players[position].total_invested = event.amount]
             potted == [paid EXCEPT !.pot_total = event.pot_total]
         IN IF event.blind_type = "small"
            THEN LET small == [potted EXCEPT !.small_blind_posted = TRUE,
                                             !.current_bet = event.amount]
                 IN [processes |-> Stored(processes, small), cmd |-> post_next_blind(small)]
            ELSE IF event.blind_type = "big"
            THEN LET big == [potted EXCEPT !.big_blind_posted = TRUE,
                                           !.current_bet = event.amount]
                 IN [processes |-> Stored(processes, start_betting(big)), cmd |-> Nullopt]
            ELSE blind_posted_from(Stored(processes, potted), event, visit, player_order, i + 1)

\* The processes in the iteration order of processes_
Visited(processes, process_order) ==
    SelectSeq(process_order, LAMBDA hand_id : hand_id \in DOMAIN processes)

\* HandProcessManager::handle_blind_posted
handle_blind_posted(processes, event, process_order, player_order) ==
    blind_posted_from(processes, event, Visited(processes, process_order), player_order, 1)

\* HandProcessManager::handle_action_taken, the update of the acting player
action_taken_by(process, position, event) ==
    LET adds == event.action \in {"ALL_IN", "CALL", "BET", "RAISE"}
        acted == [process EXCEPT
                     !.players[position].stack = event.player_stack,
                     !.players[position].has_acted = TRUE,
                     !.players[position].has_folded = IF event.action = "FOLD" THEN TRUE ELSE @,
                     !.players[position].is_all_in = IF event.action = "ALL_IN" THEN TRUE ELSE @,
                     !.players[position].bet_this_round = IF adds THEN @ + event.amount ELSE @,
                     !.players[position].total_invested = IF adds THEN @ + event.amount ELSE @]
        bet == acted.players[position].bet_this_round
    IN IF event.action \in {"BET", "RAISE", "ALL_IN"} /\ bet > acted.current_bet
       THEN [acted EXCEPT
                !.current_bet = bet,
                !.min_raise = Max({@, bet - acted.current_bet}),
                !.last_aggressor = position,
                !.players = [q \in DOMAIN @ |->
                                IF q # position /\ ~@[q].has_folded /\ ~@[q].is_all_in
                                THEN [@[q] EXCEPT !.has_acted = FALSE]
                                ELSE @[q]]]
       ELSE acted

\* HandProcessManager::handle_action_taken: the first process in BETTING
handle_action_taken(processes, event, process_order, player_order) ==
    LET visit == Visited(processes, process_order)
        betting == {i \in 1..Len(visit) : processes[visit[i]].phase = "BETTING"}
    IN IF betting = {} THEN [processes |-> processes, cmd |-> Nullopt]
       ELSE LET process == processes[visit[Min(betting)]]
                found == player_with_root(process, player_order, event.player_root)
                updated == IF found = {} THEN process
                           ELSE action_taken_by(process, CHOOSE q \in found : TRUE, event)
                potted == [updated EXCEPT !.pot_total = event.pot_total]
            IN IF is_betting_complete(potted)
               THEN LET ended == end_betting_round(potted, player_order)
                    IN [processes |-> Stored(processes, ended.process), cmd |-> ended.cmd]
               ELSE [processes |-> Stored(processes, advance_action(potted)), cmd |-> Nullopt]

\* HandProcessManager::handle_community_cards_dealt
handle_community_cards_dealt(processes, event, process_order) ==
    LET visit == Visited(processes, process_order)
        dealing == {i \in 1..Len(visit) : processes[visit[i]].phase = "DEALING_COMMUNITY"}
    IN IF dealing = {} THEN [processes |-> processes, cmd |-> Nullopt]
       ELSE LET process == [processes[visit[Min(dealing)]] EXCEPT !.betting_phase = event.phase]
            IN [processes |-> Stored(processes, start_betting(process)), cmd |-> Nullopt]

\* HandProcessManager::handle_showdown_started
handle_showdown_started(processes, event, process_order, player_order) ==
    LET visit == Visited(processes, process_order)
        showdown == {i \in 1..Len(visit) : processes[visit[i]].phase = "SHOWDOWN"}
    IN [processes |-> processes,
        cmd |-> IF showdown = {} THEN Nullopt
                ELSE Some(build_award_pot_cmd(processes[visit[Min(showdown)]], player_order))]

\* HandProcessManager::handle_pot_awarded
handle_pot_awarded(processes, event) ==
    [processes |-> [hand_id \in DOMAIN processes |->
                       [processes[hand_id] EXCEPT !.phase = "COMPLETE"]],
     cmd |-> Nullopt]

\* The needles of HandFlowService::Handle, in the order of its if / else-if chain
FlowBranches ==
    <<(<<"HandStarted">>), (<<"CardsDealt">>), (<<"BlindPosted">>), (<<"ActionTaken">>),
      (<<"Community", "CardsDealt">>), (<<"ShowdownStarted">>), (<<"PotAwarded">>)>>

flow_branch(type_url) ==
    LET hits == {k \in 1..Len(FlowBranches) : Find(type_url, FlowBranches[k])}
    IN IF hits = {} THEN <<>> ELSE FlowBranches[Min(hits)]

\* HandFlowService::Handle, one trigger page
handle_page(processes, event_any, process_order, player_order) ==
    LET branch == flow_branch(event_any.type_url)
        event == event_any.body
        nothing == [processes |-> processes, cmd |-> Nullopt]
    IN IF branch = <<>> \/ ~AnyIs(event_any, HandFullName(branch)) THEN nothing
       ELSE IF branch = <<"HandStarted">> THEN start_hand(processes, event)
       ELSE IF branch = <<"CardsDealt">> THEN handle_cards_dealt(processes, event)
       ELSE IF branch = <<"BlindPosted">>
       THEN handle_blind_posted(processes, event, process_order, player_order)
       ELSE IF branch = <<"ActionTaken">>
       THEN handle_action_taken(processes, event, process_order, player_order)
       ELSE IF branch = <<"Community", "CardsDealt">>
       THEN handle_community_cards_dealt(processes, event, process_order)
       ELSE IF branch = <<"ShowdownStarted">>
       THEN handle_showdown_started(processes, event, process_order, player_order)
       ELSE handle_pot_awarded(processes, event)

\* HandFlowService::Handle, the loop over the trigger's pages
RECURSIVE handle_pages(_, _, _, _, _, _)
handle_pages(processes, commands, pages, process_order, player_order, i) ==
    IF i > Len(pages) THEN [processes |-> processes, commands |-> commands]
    ELSE LET r == handle_page(processes, pages[i].event, process_order, player_order)
         IN handle_pages(r.processes,
                         IF r.cmd.has_value THEN Append(commands, r.cmd.value) ELSE commands,
                         pages, process_order, player_order, i + 1)

\* Roots of the hands (and tables) the events are about
FlowRoots == {"r1", "r2"}

HandStartedEvent(hand_root) ==
    HandEvent(<<"HandStarted">>,
              [hand_root |-> hand_root, hand_number |-> 1, game_variant |-> "TEXAS_HOLDEM",
               dealer_position |-> 0, small_blind_position |-> 0, big_blind_position |-> 1,
               small_blind |-> 1, big_blind |-> 2, active_players |-> HandPlayers])

CardsDealtAt(table_root) ==
    HandEvent(<<"CardsDealt">>,
              [table_root |-> table_root, hand_number |-> 1, game_variant |-> "TEXAS_HOLDEM",
               dealer_position |-> 0, players |-> HandPlayers, player_cards |-> <<>>])

\* The events the hand-flow service subscribes to
FlowEvents ==
    {HandStartedEvent(r) : r \in FlowRoots} \cup
    {CardsDealtAt(r) : r \in FlowRoots} \cup
    {BlindPostedEvent("p1", "small", 1, 1, 1),
     BlindPostedEvent("p2", "big", 2, 0, 3),
     ActionTakenEvent("p1", "CALL", 1, 0, 4),
     ActionTakenEvent("p2", "CALL", 0, 0, 4),
     ActionTakenEvent("p2", "FOLD", 0, 0, 3),
     ActionTakenEvent("p1", "ALL_IN", 2, 0, 5),
     HandEvent(<<"Community", "CardsDealt">>, [cards |-> <<DeckInOrder[DeckSize]>>, phase |-> "FLOP"]),
     HandEvent(<<"ShowdownStarted">>, EmptyBody),
     HandEvent(<<"PotAwarded">>, [winners |-> <<[player_root |-> "p1", amount |-> 3]>>])}

\* request->trigger(): its cover's correlation ID and its pages
TriggerCorrelations == {<<>>, <<"corr-1">>}
TriggerPages == SeqsUpTo({[event |-> e] : e \in FlowEvents}, MaxTrigger)

\* Iteration orders an unordered_map may have
FlowHandIds == {<<Hex(r), "_", 1>> : r \in FlowRoots}
Orders(S) == {q \in SeqsUpTo(S, Cardinality(S)) :
                 Len(q) = Cardinality(S) /\ \A i, j \in 1..Len(q) : q[i] = q[j] => i = j}
ProcessOrders == Orders(FlowHandIds)
PlayerOrders == Orders({HandPlayers[i].position : i \in 1..Len(HandPlayers)})

\* HandFlowService::Handle: one request, from entry to the response
HandleFlow(correlation_id, pages, process_order, player_order) ==
    LET r == handle_pages(flow.processes_, <<>>, pages, process_order, player_order, 1)
    IN /\ flow.calls < MaxHandles
       /\ flow' = [processes_ |-> r.processes, calls |-> flow.calls + 1, done |-> TRUE,
                   correlation_id |-> correlation_id, pages |-> pages,
                   commands |-> r.commands]
       /\ UNCHANGED exceptFlow

NextFlow ==
    \E correlation_id \in TriggerCorrelations, pages \in TriggerPages,
       process_order \in ProcessOrders, player_order \in PlayerOrders :
        HandleFlow(correlation_id, pages, process_order, player_order)

SpecFlow == Init /\ [][NextFlow]_vars

\* What a service that handled nothing before returns for the last request
FreshCommands(process_order, player_order) ==
    handle_pages(NoFlow.processes_, <<>>, flow.pages, process_order, player_order, 1).commands

\* C16: a process-manager dispatch whose source event book has no correlation
\* ID returns an empty command list.
C16_NoCorrelationNoCommands ==
    (flow.done /\ flow.correlation_id = <<>>) => flow.commands = <<>>

\* C19: every command book a process manager outputs carries a non-empty
\* correlation ID equal to that of the source event book.
C19_CorrelationPropagated ==
    flow.done =>
        \A k \in 1..Len(flow.commands) :
            /\ flow.commands[k].correlation_id # <<>>
            /\ flow.commands[k].correlation_id = flow.correlation_id

\* C20: the response of a dispatch is determined by its inputs alone: it is the
\* response the same request gets when no dispatch ran before it.
C20_ResponseFromInputsAlone ==
    flow.done =>
        \A process_order \in ProcessOrders, player_order \in PlayerOrders :
            flow.commands = FreshCommands(process_order, player_order)

\* ------------------------------------------------------------- class Saga
\* The saga modelled: reacts to events of the hand domain, sends to player
input_domain == <<"hand">>
output_domain == <<"player">>

\* Names handlers are registered under (ANGZARR_PREPARES, ANGZARR_REACTS_TO)
SagaNames == {<<"PotAwarded">>, <<"HandStarted">>}

\* An event that names roots of the output domain (winners, players)
SagaEvent(name, roots) == [type_url |-> TYPE_URL_PREFIX \o name, body |-> [roots |-> roots]]

SagaPages ==
    {[has_event |-> FALSE, event |-> EmptyAny],
     [has_event |-> TRUE, event |-> SagaEvent(<<"PotAwarded">>, <<"w1", "w2">>)],
     [has_event |-> TRUE, event |-> SagaEvent(<<"PotAwarded">>, <<"w3">>)],
     [has_event |-> TRUE, event |-> SagaEvent(<<"HandStarted">>, <<"w4">>)]}

\* Covers of a source book: none, the input domain with and without a
\* correlation ID, and a domain the saga has nothing registered for
SagaCovers ==
    {[has_cover |-> FALSE, domain |-> <<>>, correlation_id |-> <<>>],
     [has_cover |-> TRUE, domain |-> <<"hand">>, correlation_id |-> <<>>],
     [has_cover |-> TRUE, domain |-> <<"hand">>, correlation_id |-> <<"corr-1">>],
     [has_cover |-> TRUE, domain |-> <<"table">>, correlation_id |-> <<"corr-1">>]}

SagaBooks ==
    {[has_cover |-> c.has_cover, domain |-> c.domain, correlation_id |-> c.correlation_id,
      pages |-> p] : c \in SagaCovers, p \in SeqsUpTo(SagaPages, MaxPages)}

\* The user's prepare handler: one cover of the output domain per root named
prepare_covers(event_any) ==
    [i \in 1..Len(event_any.body.roots) |->
        [domain |-> output_domain, root |-> event_any.body.roots[i]]]

\* Saga::pack_commands, called by the react handler with the correlation ID
\* the dispatch passed to it
Saga_pack_commands(command, correlation_id) ==
    <<[domain |-> output_domain, correlation_id |-> correlation_id, pages |-> <<command>>]>>

\* The user's react handler for one event: one command for the event
saga_react(event_any, correlation_id) ==
    Saga_pack_commands([type_url |-> TYPE_URL_PREFIX \o <<"Command">>, body |-> event_any.body],
                       correlation_id)

\* Saga::prepare_destinations
RECURSIVE Saga_prepare_destinations(_, _, _)
Saga_prepare_destinations(prepare_handlers, pages, i) ==
    IF i > Len(pages) THEN <<>>
    ELSE LET suffix == type_name_from_url(pages[i].event.type_url)
             covers == IF pages[i].has_event /\ suffix \in prepare_handlers
                       THEN prepare_covers(pages[i].event)
                       ELSE <<>>
         IN covers \o Saga_prepare_destinations(prepare_handlers, pages, i + 1)

\* Saga::dispatch, the page loop
RECURSIVE Saga_dispatch_pages(_, _, _, _)
Saga_dispatch_pages(handlers, pages, correlation_id, i) ==
    IF i > Len(pages) THEN <<>>
    ELSE LET suffix == type_name_from_url(pages[i].event.type_url)
             cmds == IF pages[i].has_event /\ suffix \in handlers
                     THEN saga_react(pages[i].event, correlation_id)
                     ELSE <<>>
         IN cmds \o Saga_dispatch_pages(handlers, pages, correlation_id, i + 1)

\* Saga::dispatch
Saga_dispatch(handlers, source) ==
    LET correlation_id == IF source.has_cover THEN source.correlation_id ELSE <<>>
    IN Saga_dispatch_pages(handlers, source.pages, correlation_id, 1)

\* ANGZARR_REACTS_TO / Saga::register_event_handler
RegisterSagaHandler(name) ==
    /\ ~saga.done
    /\ name \notin saga.handlers
    /\ saga' = [saga EXCEPT !.handlers = @ \cup {name}]
    /\ UNCHANGED exceptSaga

\* ANGZARR_PREPARES / Saga::register_prepare_handler
RegisterSagaPrepare(name) ==
    /\ ~saga.done
    /\ name \notin saga.prepare_handlers
    /\ saga' = [saga EXCEPT !.prepare_handlers = @ \cup {name}]
    /\ UNCHANGED exceptSaga

\* The two phases of one source book: prepare_destinations, then dispatch
RunSaga(source) ==
    /\ saga' = [saga EXCEPT
                   !.done = TRUE,
                   !.has_cover = source.has_cover,
                   !.domain = source.domain,
                   !.correlation_id = source.correlation_id,
                   !.pages = source.pages,
                   !.destinations = Saga_prepare_destinations(saga.prepare_handlers,
                                                              source.pages, 1),
                   !.commands = Saga_dispatch(saga.handlers, source)]
    /\ UNCHANGED exceptSaga

NextSaga ==
    \/ \E n \in SagaNames : RegisterSagaHandler(n)
    \/ \E n \in SagaNames : RegisterSagaPrepare(n)
    \/ \E source \in SagaBooks : RunSaga(source)

SpecSaga == Init /\ [][NextSaga]_vars

\* C17: dispatching an event book whose cover domain has no registrations (any
\* domain but the saga's input domain, or no cover) yields an empty command
\* list, whatever event types its pages carry.
C17_UnregisteredDomainNoCommands ==
    (saga.done /\ (~saga.has_cover \/ saga.domain # input_domain)) => saga.commands = <<>>

\* ------------------------------------------- hand/saga-player service
exceptService == <<routerVars, playerVars, rebuildVars, handVars, pmVars, flowVars, sagaVars, staticVars, validationVars, executeVars, eventRouterVars, queryVars, upcasterVars, handAggVars, tableVars>>

OUTPUT_DOMAIN == <<"player">>

\* examples::PotAwarded with no winners, the message before UnpackTo
EmptyPotAwarded == [winners |-> <<>>]

\* google::protobuf::Any::UnpackTo(&event): parses when the Any holds a
\* PotAwarded, leaves the message as it was otherwise
UnpackToPotAwarded(event_any) ==
    IF AnyIs(event_any, HandFullName(<<"PotAwarded">>)) THEN event_any.body ELSE EmptyPotAwarded

WinnerRoots == {"w1", "w2"}
Winner(player_root) == [player_root |-> player_root, amount |-> 1]
WinnerLists ==
    {<<>>} \cup {<<Winner(a)>> : a \in WinnerRoots}
           \cup {<<Winner(a), Winner(b)>> : a \in WinnerRoots, b \in WinnerRoots}

\* Pages of the source book of a Prepare request: PotAwarded with each list
\* of winners, an event of another type, an event whose type name ends in
\* PotAwarded, and a page with no event
PreparePages ==
    {[has_event |-> TRUE, event |-> HandEvent(<<"PotAwarded">>, [winners |-> w])] : w \in WinnerLists}
    \cup {[has_event |-> TRUE, event |-> HandEvent(<<"HandStarted">>, EmptyBody)],
          [has_event |-> TRUE,
           event |-> HandEvent(<<"Side", "PotAwarded">>, [winners |-> <<Winner("w1")>>])],
          [has_event |-> FALSE, event |-> EmptyAny]}

PrepareBooks == SeqsUpTo(PreparePages, MaxPages)

\* Prepare, the loop over the winners of one event
winner_destinations(event) ==
    [i \in 1..Len(event.winners) |->
        [domain |-> OUTPUT_DOMAIN, root |-> event.winners[i].player_root]]

\* Prepare, the loop over the pages: the first page whose type URL contains
\* "PotAwarded" gives the destinations and ends the loop
RECURSIVE prepare_pages(_, _)
prepare_pages(pages, i) ==
    IF i > Len(pages) THEN <<>>
    ELSE IF Find(pages[i].event.type_url, <<"PotAwarded">>)
         THEN winner_destinations(UnpackToPotAwarded(pages[i].event))
         ELSE prepare_pages(pages, i + 1)

\* SagaService::Prepare
Prepare(pages) ==
    /\ prepared' = [done |-> TRUE, pages |-> pages, destinations |-> prepare_pages(pages, 1)]
    /\ UNCHANGED exceptService

NextService == \E pages \in PrepareBooks : Prepare(pages)

SpecService == Init /\ [][NextService]_vars

\* The covers the prepare handler of PotAwarded returns for every PotAwarded
\* page of a book, concatenated in page order
RECURSIVE PotAwardedCovers(_, _)
PotAwardedCovers(pages, i) ==
    IF i > Len(pages) THEN <<>>
    ELSE (IF pages[i].has_event /\ pages[i].event.type_url = HandUrl(<<"PotAwarded">>)
          THEN [k \in 1..Len(pages[i].event.body.winners) |->
                   [domain |-> <<"player">>, root |-> pages[i].event.body.winners[k].player_root]]
          ELSE <<>>)
         \o PotAwardedCovers(pages, i + 1)

\* C18: for every event page of the source book whose event type has a
\* registered handler pair (PotAwarded for this saga), all covers returned by
\* its prepare handler appear in the prepare output, concatenated in page order.
C18_AllCoversInPageOrder ==
    prepared.done => prepared.destinations = PotAwardedCovers(prepared.pages, 1)

\* ------------------------------------- static handler registries of a process
\* Concrete component kinds linked into one process: the class each derives
\* from, with the state type for the class template Aggregate<StateT>
Kinds ==
    [SagaA |-> <<"Saga">>, SagaB |-> <<"Saga">>,
     ProjectorA |-> <<"Projector">>,
     AggregateA |-> <<"Aggregate", "StateX">>, AggregateB |-> <<"Aggregate", "StateY">>,
     AggregateC |-> <<"Aggregate", "StateX">>]

\* Message type names the kinds register handlers for
RegistryNames == {<<"PotAwarded">>, <<"HandStarted">>}

\* Saga::handlers(), Projector::handlers(), Aggregate<StateT>::handlers():
\* one function-local static map per class (per instantiation for a template),
\* shared by every kind deriving from it
handlers(kind) == statics.maps[Kinds[kind]]

\* register_event_handler / register_projector_handler / register_handler:
\* handlers()[suffix] = dispatcher, the dispatcher being a member of `kind`
register_handler(maps, kind, suffix) ==
    [maps EXCEPT ![Kinds[kind]] =
        [n \in DOMAIN @ \cup {suffix} |-> IF n = suffix THEN kind ELSE @[n]]]

\* The static initializer of one ANGZARR_REACTS_TO / ANGZARR_PROJECTS /
\* ANGZARR_HANDLES of one kind; each runs once, in an order the language does
\* not fix across translation units, before any message is handled
StaticRegister(kind, suffix) ==
    /\ ~statics.done
    /\ <<kind, suffix>> \notin statics.registered
    /\ statics' = [statics EXCEPT
                      !.maps = register_handler(@, kind, suffix),
                      !.registered = @ \cup {<<kind, suffix>>}]
    /\ UNCHANGED exceptStatics

\* Saga::dispatch / Projector::project / Aggregate::dispatch on an instance of
\* `kind` for one message: handlers().find(suffix), then it->second(this, ...)
Invoke(kind, suffix) ==
    /\ statics' = [statics EXCEPT
                      !.done = TRUE,
                      !.self = kind,
                      !.name = suffix,
                      !.owner = IF suffix \in DOMAIN handlers(kind)
                                THEN handlers(kind)[suffix] ELSE "none"]
    /\ UNCHANGED exceptStatics

NextStatics ==
    \/ \E kind \in DOMAIN Kinds, suffix \in RegistryNames : StaticRegister(kind, suffix)
    \/ \E kind \in DOMAIN Kinds, suffix \in RegistryNames : Invoke(kind, suffix)

SpecStatics == Init /\ [][NextStatics]_vars

\* C21: handler registrations of two distinct component kinds in one process
\* never collide: every handler a kind registered is still the one its kind
\* finds (never overwritten through another kind), and an instance of a kind
\* only ever invokes handlers of its own kind.
C21_NoCollision ==
    /\ \A r \in statics.registered :
          r[2] \in DOMAIN handlers(r[1]) /\ handlers(r[1])[r[2]] = r[1]
    /\ (statics.done /\ statics.owner # "none") => statics.owner = statics.self

\* C22: registering two command handlers with the same command type name is
\* an error, it never silently keeps one of them. Every element of handlers_
\* is a call of on() that returned normally, so no name is ever there twice.
C22_DuplicateHandlerIsError ==
    \A i, j \in 1..Len(handlers_) : handlers_[i] = handlers_[j] => i = j

\* The state-level preconditions of a player command that do not depend on
\* the amount: the player exists, and for ReserveFunds no funds are reserved
\* for the table yet
GuardFails(command_any, state) ==
    \/ /\ \/ Contains(command_any.type_url, "DepositFunds")
          \/ Contains(command_any.type_url, "WithdrawFunds")
          \/ Contains(command_any.type_url, "ReserveFunds")
       /\ ~exists(state)
    \/ /\ Contains(command_any.type_url, "ReserveFunds")
       /\ command_any.body.table_root \in DOMAIN state.table_reservations

\* C23: for a handler whose guard (state-level precondition) fails, the
\* response is CommandRejected (FAILED_PRECONDITION) regardless of subsequent
\* validation, also when the command's input would fail validation too.
\* (A rejected command leaves the book as it was, so the state the handler
\* saw is the one rebuilt from the book.)
C23_GuardPrecedence ==
    (/\ last.status \notin {"none", "OK"}
     /\ Len(last.command) > 0
     /\ GuardFails(last.command[1], from_event_book(book)))
        => last.status = "FAILED_PRECONDITION"

\* ------------------------------------------------ errors.hpp, validation.hpp
MaxValue == 12

\* An exception of one of the ClientError classes
CommandRejectedError(message) == [class |-> "CommandRejectedError", message |-> message]
InvalidArgumentError(message) == [class |-> "InvalidArgumentError", message |-> message]

\* ClientError::is_precondition_failed, overridden by CommandRejectedError
is_precondition_failed(error) == error.class = "CommandRejectedError"

\* ClientError::is_invalid_argument, overridden by InvalidArgumentError
is_invalid_argument(error) == error.class = "InvalidArgumentError"

\* What a call did: returned, or threw an exception
Returns == [threw |-> FALSE, error |-> [class |-> "", message |-> <<>>]]
Throws(error) == [threw |-> TRUE, error |-> error]

\* validation::require_exists
require_exists(exists_flag, message) ==
    IF ~exists_flag THEN Throws(CommandRejectedError(message)) ELSE Returns

\* validation::require_not_exists
require_not_exists(exists_flag, message) ==
    IF exists_flag THEN Throws(CommandRejectedError(message)) ELSE Returns

\* validation::require_positive
require_positive(value, field_name) ==
    IF value <= 0 THEN Throws(CommandRejectedError(<<field_name, " must be positive">>))
    ELSE Returns

\* validation::require_non_negative
require_non_negative(value, field_name) ==
    IF value < 0 THEN Throws(CommandRejectedError(<<field_name, " must be non-negative">>))
    ELSE Returns

\* validation::require_not_empty (string)
require_not_empty(value, field_name) ==
    IF value = <<>> THEN Throws(CommandRejectedError(<<field_name, " must not be empty">>))
    ELSE Returns

FieldNames == {"value", "amount"}
GuardMessages == {<<"Aggregate does not exist">>, <<"Aggregate already exists">>}

\* A handler's guard phase calls require_exists or require_not_exists
CheckExists(exists_flag, message) ==
    /\ checked' = [helper |-> "require_exists", argument |-> <<exists_flag>>] @@ require_exists(exists_flag, message)
    /\ UNCHANGED exceptValidation

CheckNotExists(exists_flag, message) ==
    /\ checked' = [helper |-> "require_not_exists", argument |-> <<exists_flag>>] @@ require_not_exists(exists_flag, message)
    /\ UNCHANGED exceptValidation

\* A handler's validate phase calls require_positive, require_non_negative
\* or require_not_empty on a field of the command
CheckPositive(value, field_name) ==
    /\ checked' = [helper |-> "require_positive", argument |-> <<value>>] @@ require_positive(value, field_name)
    /\ UNCHANGED exceptValidation

CheckNonNegative(value, field_name) ==
    /\ checked' = [helper |-> "require_non_negative", argument |-> <<value>>] @@ require_non_negative(value, field_name)
    /\ UNCHANGED exceptValidation

CheckNotEmpty(value, field_name) ==
    /\ checked' = [helper |-> "require_not_empty", argument |-> <<value>>] @@ require_not_empty(value, field_name)
    /\ UNCHANGED exceptValidation

NextValidation ==
    \/ \E e \in BOOLEAN, m \in GuardMessages : CheckExists(e, m)
    \/ \E e \in BOOLEAN, m \in GuardMessages : CheckNotExists(e, m)
    \/ \E v \in (0 - MaxValue)..MaxValue, f \in FieldNames : CheckPositive(v, f)
    \/ \E v \in (0 - MaxValue)..MaxValue, f \in FieldNames : CheckNonNegative(v, f)
    \/ \E v \in {<<>>, <<"a">>}, f \in FieldNames : CheckNotEmpty(v, f)

SpecValidation == Init /\ [][NextValidation]_vars

ValidateHelpers == {"require_positive", "require_non_negative", "require_not_empty"}

\* C24: a validate-phase failure (input shape or range, e.g. a non-positive
\* amount) is reported as InvalidArgument, and only guard failures are
\* reported as CommandRejected (FAILED_PRECONDITION); the two kinds are never
\* reported as each other.
C24_ValidateIsInvalidArgument ==
    checked.threw =>
        /\ checked.helper \in ValidateHelpers =>
              is_invalid_argument(checked.error) /\ ~is_precondition_failed(checked.error)
        /\ checked.helper \notin ValidateHelpers =>
              is_precondition_failed(checked.error) /\ ~is_invalid_argument(checked.error)

\* ------------------------------------ hand/saga-player: dispatch of PotAwarded
\* Winners of a pot: a player root and the amount won
PotWinners == {[player_root |-> r, amount |-> a] : r \in WinnerRoots, a \in 1..MaxAmount}
PotWinnerLists ==
    {<<>>} \cup {<<w>> : w \in PotWinners} \cup {<<v, w>> : v \in PotWinners, w \in PotWinners}

PotAwardedPage(winners) ==
    [has_event |-> TRUE, event |-> HandEvent(<<"PotAwarded">>, [winners |-> winners])]

\* Source books: a PotAwarded page alone or after a page of another type
ExecutePages ==
    {<<PotAwardedPage(w)>> : w \in PotWinnerLists} \cup
    {<<[has_event |-> TRUE, event |-> HandEvent(<<"HandStarted">>, EmptyBody)], PotAwardedPage(w)>> :
        w \in PotWinnerLists}

\* A destination book as fetched for a root: k event pages numbered from 0,
\* and next_sequence k
DestinationBook(root, k) ==
    [has_root |-> TRUE, root |-> root, pages |-> [i \in 1..k |-> [num |-> i - 1]],
     next_sequence |-> k]

\* The fetched destinations: for each root a book, or none
DestinationLists ==
    LET books(root) == {<<>>} \cup {<<DestinationBook(root, k)>> : k \in 0..MaxPages}
    IN {a \o b : a \in books("w1"), b \in books("w2")}

\* dest_map[key] = &dest for every destination with a root; a later entry
\* with the same key replaces an earlier one
dest_map(destinations) ==
    [key \in {Hex(destinations[i].root) : i \in {j \in 1..Len(destinations) : destinations[j].has_root}} |->
        destinations[Max({i \in 1..Len(destinations) :
                            destinations[i].has_root /\ Hex(destinations[i].root) = key})]]

DepositFunds(amount) ==
    [type_url |-> HandUrl(<<"DepositFunds">>), body |-> [amount |-> amount]]

\* hand::saga::handle_pot_awarded, the loop over the winners: every winner
\* adds a page to the one command book and sets its cover anew
RECURSIVE add_winner_pages(_, _, _, _)
add_winner_pages(cmd_book, winners, destinations, i) ==
    IF i > Len(winners) THEN cmd_book
    ELSE LET player_root == winners[i].player_root
             map == dest_map(destinations)
             dest_seq == IF Hex(player_root) \in DOMAIN map
                         THEN map[Hex(player_root)].next_sequence ELSE 0
         IN add_winner_pages(
                [has_cover |-> TRUE, domain |-> <<"player">>, root |-> player_root,
                 correlation_id |-> <<>>,
                 pages |-> Append(cmd_book.pages,
                                  [sequence |-> dest_seq,
                                   command |-> DepositFunds(winners[i].amount)])],
                winners, destinations, i + 1)

\* hand::saga::handle_pot_awarded: one CommandBook
saga_handle_pot_awarded(event, destinations) ==
    add_winner_pages([has_cover |-> FALSE, domain |-> <<>>, root |-> "", correlation_id |-> <<>>,
                      pages |-> <<>>],
                     event.winners, destinations, 1)

\* Execute, the loop over the winners of the event: one command book each
execute_winners(winners, destinations, correlation_id) ==
    [i \in 1..Len(winners) |->
        LET player_hex == Hex(winners[i].player_root)
            map == dest_map(destinations)
            dest_seq == IF player_hex \in DOMAIN map /\ Len(map[player_hex].pages) > 0
                        THEN map[player_hex].pages[Len(map[player_hex].pages)].num + 1
                        ELSE 0
        IN [has_cover |-> TRUE, domain |-> OUTPUT_DOMAIN, root |-> winners[i].player_root,
            correlation_id |-> correlation_id,
            pages |-> <<[sequence |-> dest_seq, command |-> DepositFunds(winners[i].amount)]>>]]

\* Execute, the loop over the pages of the source
RECURSIVE execute_pages(_, _, _, _)
execute_pages(pages, destinations, correlation_id, i) ==
    IF i > Len(pages) THEN <<>>
    ELSE IF Find(pages[i].event.type_url, <<"PotAwarded">>)
         THEN execute_winners(UnpackToPotAwarded(pages[i].event).winners, destinations,
                              correlation_id)
         ELSE execute_pages(pages, destinations, correlation_id, i + 1)

\* SagaService::Execute (the service keeps nothing between requests: one
\* request is followed per behaviour)
Execute(pages, destinations, correlation_id) ==
    /\ ~executed.done
    /\ executed' = [done |-> TRUE, handler |-> "Execute", correlation_id |-> correlation_id,
                    pages |-> pages, destinations |-> destinations,
                    commands |-> execute_pages(pages, destinations, correlation_id, 1)]
    /\ UNCHANGED exceptExecute

\* The router of create_hand_player_router dispatching one PotAwarded page:
\* the command book of handle_pot_awarded is the response
RouterDispatch(winners, destinations) ==
    /\ ~executed.done
    /\ executed' = [done |-> TRUE, handler |-> "handle_pot_awarded", correlation_id |-> <<>>,
                    pages |-> <<PotAwardedPage(winners)>>, destinations |-> destinations,
                    commands |-> <<saga_handle_pot_awarded([winners |-> winners], destinations)>>]
    /\ UNCHANGED exceptExecute

NextExecute ==
    \/ \E pages \in ExecutePages, destinations \in DestinationLists,
          correlation_id \in {<<>>, <<"corr-1">>} :
            Execute(pages, destinations, correlation_id)
    \/ \E winners \in PotWinnerLists, destinations \in DestinationLists :
            RouterDispatch(winners, destinations)

SpecExecute == Init /\ [][NextExecute]_vars

\* The winners of the PotAwarded page of the last dispatch
DispatchedWinners == executed.pages[Len(executed.pages)].event.body.winners

\* The next sequence of the fetched destination book of a root, if there is one
NextSequenceOf(root) ==
    {executed.destinations[i].next_sequence :
        i \in {j \in 1..Len(executed.destinations) : executed.destinations[j].root = root}}

\* C25: for a source PotAwarded event with winners w_1..w_n, saga dispatch
\* returns n command books, the i-th being DepositFunds{amount = w_i.amount}
\* targeting root w_i at that destination book's next sequence.
C25_OneDepositPerWinner ==
    executed.done =>
        /\ Len(executed.commands) = Len(DispatchedWinners)
        /\ \A i \in 1..Len(DispatchedWinners) :
              /\ executed.commands[i].has_cover
              /\ executed.commands[i].domain = <<"player">>
              /\ executed.commands[i].root = DispatchedWinners[i].player_root
              /\ Len(executed.commands[i].pages) = 1
              /\ executed.commands[i].pages[1].command = DepositFunds(DispatchedWinners[i].amount)
              /\ \A n \in NextSequenceOf(DispatchedWinners[i].player_root) :
                    executed.commands[i].pages[1].sequence = n

\* The book the last accepted command was handled against: the stored book
\* without the pages the response appended
PriorBook == [pages |-> SubSeq(book.pages, 1, Len(book.pages) - Len(last.pages))]

\* C26: for a registered player, an accepted DepositFunds{amount = a} emits
\* exactly one FundsDeposited with amount a and new_balance equal to the
\* bankroll rebuilt from the prior events plus a, at the sequence equal to the
\* number of prior event pages.
C26_DepositEvent ==
    (/\ last.status = "OK"
     /\ Len(last.command) > 0
     /\ Contains(last.command[1].type_url, "DepositFunds"))
        => /\ Len(last.pages) = 1
           /\ last.pages[1].event.type_url = ExamplesUrl("FundsDeposited")
           /\ last.pages[1].event.body.amount = last.command[1].body.amount
           /\ last.pages[1].event.body.new_balance =
                  from_event_book(PriorBook).bankroll + last.command[1].body.amount
           /\ last.pages[1].sequence = Len(PriorBook.pages)

\* The same without the sequence number: what the handler computes
C26_DepositEventBody ==
    (/\ last.status = "OK"
     /\ Len(last.command) > 0
     /\ Contains(last.command[1].type_url, "DepositFunds"))
        => /\ Len(last.pages) = 1
           /\ last.pages[1].event.type_url = ExamplesUrl("FundsDeposited")
           /\ last.pages[1].event.body.amount = last.command[1].body.amount
           /\ last.pages[1].event.body.new_balance =
                  from_event_book(PriorBook).bankroll + last.command[1].body.amount

\* ------------------------------------------------------- class EventRouter
SourceDomains == {<<"orders">>, <<"inventory">>}
EventSuffixes == {<<"OrderCreated">>, <<"StockReserved">>}

\* The number of (suffix, handler) pairs in handlers_, over all domains
RECURSIVE CountHandlers(_, _)
CountHandlers(handlers_by_domain, domains) ==
    IF domains = {} THEN 0
    ELSE LET d == CHOOSE x \in domains : TRUE
         IN Len(handlers_by_domain[d]) + CountHandlers(handlers_by_domain, domains \ {d})

\* EventRouter::domain
SetDomain(name) ==
    /\ er' = [er EXCEPT
                 !.current_domain_ = name,
                 !.handlers_ = IF name \in DOMAIN @ THEN @ ELSE @ @@ (name :> <<>>),
                 !.prepare_handlers_ = IF name \in DOMAIN @ THEN @ ELSE @ @@ (name :> {})]
    /\ UNCHANGED exceptEventRouter

\* EventRouter::prepare (throws before any domain() call)
RegisterPrepare(suffix) ==
    /\ er.current_domain_ # <<>>
    /\ er' = [er EXCEPT !.prepare_handlers_[er.current_domain_] = @ \cup {suffix}]
    /\ UNCHANGED exceptEventRouter

\* EventRouter::on (throws before any domain() call)
RegisterOn(suffix) ==
    /\ er.current_domain_ # <<>>
    /\ CountHandlers(er.handlers_, DOMAIN er.handlers_) < MaxHandlers
    /\ er' = [er EXCEPT !.handlers_[er.current_domain_] = Append(@, suffix)]
    /\ UNCHANGED exceptEventRouter

\* EventRouter::subscriptions
subscriptions(handlers_by_domain) ==
    [domain \in {d \in DOMAIN handlers_by_domain : handlers_by_domain[d] # <<>>} |->
        handlers_by_domain[domain]]

NextEventRouter ==
    \/ \E name \in SourceDomains : SetDomain(name)
    \/ \E suffix \in EventSuffixes : RegisterPrepare(suffix)
    \/ \E suffix \in EventSuffixes : RegisterOn(suffix)

SpecEventRouter == Init /\ [][NextEventRouter]_vars

\* The event type names registered under a source domain, of either kind
RegisteredUnder(domain) ==
    {er.handlers_[domain][i] : i \in 1..Len(er.handlers_[domain])}
        \cup er.prepare_handlers_[domain]

\* C27: the subscriptions map contains, for every source domain that has any
\* registration, the list of all event type names registered under that
\* domain (all kinds, prepare as well as react).
C27_SubscriptionsListAllKinds ==
    LET subs == subscriptions(er.handlers_) IN
    \A domain \in DOMAIN er.handlers_ :
        RegisteredUnder(domain) # {} =>
            /\ domain \in DOMAIN subs
            /\ {subs[domain][i] : i \in 1..Len(subs[domain])} = RegisteredUnder(domain)

\* ------------------------------------------ QueryBuilder::parse_rfc3339
\* A string is the sequence of its characters
Digits == <<"0", "1", "2", "3", "4", "5", "6", "7", "8", "9">>
IsDigit(c) == \E i \in 1..Len(Digits) : Digits[i] = c
DigitValue(c) == (CHOOSE i \in 1..Len(Digits) : Digits[i] = c) - 1

\* n written with two digits, and with four
Pad2(n) == <<Digits[((n \div 10) % 10) + 1], Digits[(n % 10) + 1]>>
Pad4(n) == Pad2(n \div 100) \o Pad2(n % 100)

\* sscanf %d, the digits: the value of the longest run of digits from pos
RECURSIVE ScanDigits(_, _, _)
ScanDigits(str, pos, value) ==
    IF pos <= Len(str) /\ IsDigit(str[pos])
    THEN ScanDigits(str, pos + 1, value * 10 + DigitValue(str[pos]))
    ELSE [value |-> value, next |-> pos]

\* sscanf, skipping white space before a conversion
RECURSIVE SkipSpace(_, _)
SkipSpace(str, pos) ==
    IF pos <= Len(str) /\ str[pos] = " " THEN SkipSpace(str, pos + 1) ELSE pos

\* sscanf %d: white space, an optional sign, then at least one digit
ScanInt(str, pos) ==
    LET start == SkipSpace(str, pos)
        signed == start <= Len(str) /\ str[start] \in {"+", "-"}
        first == IF signed THEN start + 1 ELSE start
        digits == ScanDigits(str, first, 0)
    IN IF digits.next = first THEN [ok |-> FALSE, value |-> 0, next |-> pos]
       ELSE [ok |-> TRUE,
             value |-> IF signed /\ str[start] = "-" THEN 0 - digits.value ELSE digits.value,
             next |-> digits.next]

\* sscanf(str, "%d-%d-%dT%d:%d:%d", ...): the conversions made, in order; the
\* scan stops at the first conversion or literal that does not match
RECURSIVE sscanf(_, _, _, _)
sscanf(str, pos, separators, values) ==
    LET field == ScanInt(str, pos) IN
    IF ~field.ok THEN values
    ELSE IF separators = <<>> THEN Append(values, field.value)
    ELSE IF field.next <= Len(str) /\ str[field.next] = Head(separators)
         THEN sscanf(str, field.next + 1, Tail(separators), Append(values, field.value))
         ELSE Append(values, field.value)

is_leap(y) == (y % 4 = 0 /\ y % 100 # 0) \/ y % 400 = 0

\* The loop over the years from 1970 up to, not including, year
RECURSIVE days_from_years(_, _)
days_from_years(y, year) ==
    IF y >= year THEN 0
    ELSE 365 + (IF is_leap(y) THEN 1 ELSE 0) + days_from_years(y + 1, year)

days_in_month == <<31, 28, 31, 30, 31, 30, 31, 31, 30, 31, 30, 31>>

\* The loop over the months before month (month at most 13 here: the table
\* has no entry past December)
RECURSIVE days_from_months(_, _)
days_from_months(m, month) ==
    IF m >= month THEN 0 ELSE days_in_month[m] + days_from_months(m + 1, month)

\* QueryBuilder::parse_rfc3339: the Timestamp, or InvalidTimestampError
parse_rfc3339(rfc3339) ==
    IF Len(rfc3339) < 20 \/ rfc3339[11] # "T"
    THEN [threw |-> TRUE, seconds |-> 0, nanos |-> 0]
    ELSE LET v == sscanf(rfc3339, 1, <<"-", "-", "T", ":", ":">>, <<>>) IN
         IF Len(v) # 6 THEN [threw |-> TRUE, seconds |-> 0, nanos |-> 0]
         ELSE LET days_since_1970 ==
                      days_from_years(1970, v[1]) + days_from_months(1, v[2])
                      + (IF v[2] > 2 /\ is_leap(v[1]) THEN 1 ELSE 0) + (v[3] - 1)
              IN [threw |-> FALSE,
                  seconds |-> days_since_1970 * 86400 + v[4] * 3600 + v[5] * 60 + v[6],
                  nanos |-> 0]

\* YYYY-MM-DDTHH:MM:SS followed by a last character
TimeText(year, month, day, hour, minute, second, last_char) ==
    Pad4(year) \o <<"-">> \o Pad2(month) \o <<"-">> \o Pad2(day) \o <<"T">> \o Pad2(hour)
        \o <<":">> \o Pad2(minute) \o <<":">> \o Pad2(second) \o <<last_char>>

\* "2024-01-15T10:30:00Z"
ExampleTime == TimeText(2024, 1, 15, 10, 30, 0, "Z")

\* "not-a-timestamp"
NotATimestamp == <<"n", "o", "t", "-", "a", "-", "t", "i", "m", "e", "s", "t", "a", "m", "p">>

\* ------------------------------------------------------- class QueryBuilder
\* QueryBuilder::with_root
with_root_keeping(b, root_bytes) ==
    [b EXCEPT !.root_ = <<root_bytes>>]
with_root(b, root_bytes) ==
    [b EXCEPT !.root_ = <<root_bytes>>, !.correlation_id_ = <<>>]

\* QueryBuilder::by_correlation_id
by_correlation_id(b, id) ==
    [b EXCEPT !.correlation_id_ = <<id>>, !.root_ = <<>>]

\* QueryBuilder::with_edition
with_edition(b, edition) == [b EXCEPT !.edition_ = <<edition>>]

\* QueryBuilder::range
range(b, lower) ==
    [b EXCEPT !.range_lower_ = lower, !.range_upper_ = <<>>, !.has_range_ = TRUE,
              !.has_temporal_ = FALSE]

\* QueryBuilder::range_to
range_to(b, lower, upper) ==
    [b EXCEPT !.range_lower_ = lower, !.range_upper_ = <<upper>>, !.has_range_ = TRUE,
              !.has_temporal_ = FALSE]

\* QueryBuilder::as_of_sequence
as_of_sequence(b, sequence) ==
    [b EXCEPT !.temporal_sequence_ = <<sequence>>, !.has_temporal_ = TRUE, !.has_range_ = FALSE]

\* QueryBuilder::as_of_time: parse_rfc3339 throws before anything is assigned
as_of_time(b, rfc3339) ==
    LET ts == parse_rfc3339(rfc3339) IN
    IF ts.threw THEN [b EXCEPT !.threw = TRUE]
    ELSE [b EXCEPT !.temporal_time_ = <<[seconds |-> ts.seconds, nanos |-> ts.nanos]>>,
                   !.has_temporal_ = TRUE, !.has_range_ = FALSE]

\* QueryBuilder::build
build(b) ==
    [has_root |-> b.root_ # <<>>,
     root |-> IF b.root_ # <<>> THEN b.root_[1] ELSE "",
     correlation_id |-> IF b.correlation_id_ # <<>> THEN b.correlation_id_[1] ELSE "",
     has_edition |-> b.edition_ # <<>>,
     has_range |-> b.has_range_,
     lower |-> IF b.has_range_ THEN b.range_lower_ ELSE 0,
     upper |-> IF b.has_range_ THEN b.range_upper_ ELSE <<>>,
     has_temporal |-> ~b.has_range_ /\ b.has_temporal_,
     as_of_sequence |-> IF ~b.has_range_ /\ b.has_temporal_ THEN b.temporal_sequence_ ELSE <<>>,
     as_of_time |-> IF ~b.has_range_ /\ b.has_temporal_ /\ b.temporal_sequence_ = <<>>
                    THEN b.temporal_time_ ELSE <<>>]

\* One setter call on the builder
Called(name, argument, b) ==
    /\ qb' = [b EXCEPT !.call = name, !.argument = argument, !.threw = b.threw /\ name = "as_of_time"]
    /\ UNCHANGED exceptQuery

Started == [qb EXCEPT !.threw = FALSE]

WithRoot(root_bytes) == Called("with_root", <<root_bytes>>, with_root(Started, root_bytes))
ByCorrelationId(id) == Called("by_correlation_id", <<id>>, by_correlation_id(Started, id))
WithEdition(edition) == Called("with_edition", <<edition>>, with_edition(Started, edition))
Range(lower) == Called("range", <<lower>>, range(Started, lower))
RangeTo(lower, upper) == Called("range_to", <<lower, upper>>, range_to(Started, lower, upper))
AsOfSequence(sequence) == Called("as_of_sequence", <<sequence>>, as_of_sequence(Started, sequence))
AsOfTime(rfc3339) == Called("as_of_time", rfc3339, as_of_time(Started, rfc3339))

MaxSequence == 1

NextQuery ==
    \/ WithRoot("root-1")
    \/ ByCorrelationId("corr-456")
    \/ WithEdition("v2")
    \/ \E lower \in 0..MaxSequence : Range(lower)
    \/ \E lower \in 0..MaxSequence, upper \in 0..MaxSequence : RangeTo(lower, upper)
    \/ \E sequence \in 0..MaxSequence : AsOfSequence(sequence)
    \/ \E rfc3339 \in {ExampleTime, NotATimestamp} : AsOfTime(rfc3339)

SpecQuery == Init /\ [][NextQuery]_vars

\* C28: a query built by QueryBuilder never carries both members of a
\* mutually exclusive pair, for any order of setter calls: after
\* by_correlation_id(c) it has no root, after with_root(r) it has no
\* correlation ID, after range/range_to it has no temporal selector, and after
\* as_of_sequence/as_of_time it has no range.
C28_MutuallyExclusive ==
    LET query == build(qb) IN
    /\ ~(query.has_root /\ query.correlation_id # "")
    /\ ~(query.has_range /\ query.has_temporal)
    /\ qb.call = "by_correlation_id" => ~query.has_root /\ query.correlation_id = qb.argument[1]
    /\ qb.call = "with_root" => query.has_root /\ query.correlation_id = ""
    /\ qb.call \in {"range", "range_to"} => query.has_range /\ ~query.has_temporal
    /\ (qb.call \in {"as_of_sequence", "as_of_time"} /\ ~qb.threw) =>
          query.has_temporal /\ ~query.has_range

\* with_root called on a builder that had a correlation ID and a range, after
\* a temporal selector had been set before the range
C28_Witness ==
    /\ qb.call = "with_root"
    /\ qb.root_ = <<"root-1">>
    /\ qb.has_range_
    /\ qb.temporal_sequence_ # <<>>
    /\ qb.edition_ # <<>>
    /\ build(qb).has_root
    /\ build(qb).correlation_id = ""

\* ---------------------------------------------------- as_of_time, its inputs
TimeTexts ==
    {TimeText(y, m, d, h, 30, 0, c) :
        y \in {1970, 2024}, m \in {1, 2, 12, 13}, d \in {1, 15, 32}, h \in {10, 24}, c \in {"Z", "X"}}
    \cup {NotATimestamp,
          SubSeq(ExampleTime, 1, 19),
          [ExampleTime EXCEPT ![11] = " "],
          ExampleTime \o <<"Z">>}

NextTime == \E rfc3339 \in TimeTexts : AsOfTime(rfc3339)

SpecTime == Init /\ [][NextTime]_vars

\* The two digits of str at pos, as a number (str has digits there)
Num2(str, pos) == DigitValue(str[pos]) * 10 + DigitValue(str[pos + 1])

\* str has the simplified RFC3339 UTC form YYYY-MM-DDTHH:MM:SSZ, with every
\* field in its range
IsSimplifiedRfc3339(str) ==
    /\ Len(str) = 20
    /\ \A i \in {1, 2, 3, 4, 6, 7, 9, 10, 12, 13, 15, 16, 18, 19} : IsDigit(str[i])
    /\ str[5] = "-" /\ str[8] = "-" /\ str[11] = "T" /\ str[14] = ":" /\ str[17] = ":"
    /\ str[20] = "Z"
    /\ Num2(str, 6) \in 1..12
    /\ Num2(str, 9) \in 1..31
    /\ Num2(str, 12) \in 0..23
    /\ Num2(str, 15) \in 0..59
    /\ Num2(str, 18) \in 0..59

\* C29: as_of_time accepts only the simplified RFC3339 UTC form
\* YYYY-MM-DDTHH:MM:SSZ: "2024-01-15T10:30:00Z" yields seconds 1705314600 and
\* nanos 0, and anything else (wrong shape, missing trailing Z, out-of-range
\* fields) fails with InvalidTimestamp.
C29_OnlySimplifiedRfc3339 ==
    qb.call = "as_of_time" =>
        /\ qb.argument = ExampleTime =>
              ~qb.threw /\ qb.temporal_time_ = <<[seconds |-> 1705314600, nanos |-> 0]>>
        /\ ~IsSimplifiedRfc3339(qb.argument) => qb.threw

\* ----------------------------------------------------- class UpcasterRouter
\* Suffixes of old event types handlers are registered for
UpcastSuffixes == {<<"OrderCreatedV1">>, <<"examples", ".", "OrderCreatedV1">>}

\* Event pages of stored books: an old event, a current one, or no event,
\* with a sequence number and with or without a created_at timestamp
UpcastPages ==
    {[has_event |-> TRUE, event |-> [type_url |-> TYPE_URL_PREFIX \o n, body |-> [order_id |-> "o1"]],
      sequence |-> q, has_created_at |-> t # 0, created_at |-> t] :
        n \in {<<"examples", ".", "OrderCreatedV1">>, <<"examples", ".", "OrderCreated">>},
        q \in {0, 5}, t \in {0, 7}}
    \cup {[has_event |-> FALSE, event |-> EmptyAny, sequence |-> q, has_created_at |-> t # 0,
           created_at |-> t] : q \in {0, 5}, t \in {0, 7}}

\* The user's UpcasterHandler: the current version of an old event
upcaster_handler(event) ==
    [type_url |-> TYPE_URL_PREFIX \o <<"examples", ".", "OrderCreated">>,
     body |-> [upcast_of |-> event.body]]

\* UpcasterRouter::upcast, the page a matching handler produces
new_page_without_sequence(page, new_event) ==
    [has_event |-> TRUE, event |-> new_event, sequence |-> 0,
     has_created_at |-> page.has_created_at,
     created_at |-> IF page.has_created_at THEN page.created_at ELSE 0]
new_page(page, new_event) ==
    [has_event |-> TRUE, event |-> new_event, sequence |-> page.sequence,
     has_created_at |-> page.has_created_at,
     created_at |-> IF page.has_created_at THEN page.created_at ELSE 0]

\* UpcasterRouter::upcast, one page: the first handler whose suffix ends the
\* type URL rewrites it
upcast_page(upcast_handlers, page) ==
    LET hit == {i \in 1..Len(upcast_handlers) : EndsWith(page.event.type_url, upcast_handlers[i])}
    IN IF ~page.has_event \/ hit = {} THEN page
       ELSE new_page(page, upcaster_handler(page.event))

\* UpcasterRouter::upcast
upcast(upcast_handlers, events) ==
    [i \in 1..Len(events) |-> upcast_page(upcast_handlers, events[i])]

\* UpcasterRouter::on
UpcasterOn(suffix) ==
    /\ ~up.done
    /\ Len(up.handlers_) < MaxHandlers
    /\ up' = [up EXCEPT !.handlers_ = Append(@, suffix)]
    /\ UNCHANGED exceptUpcaster

\* One call of upcast (a const member: the router is as before, so one call
\* is followed per behaviour)
Upcast(events) ==
    /\ ~up.done
    /\ up' = [up EXCEPT !.done = TRUE, !.events = events,
                        !.result = upcast(up.handlers_, events)]
    /\ UNCHANGED exceptUpcaster

NextUpcaster ==
    \/ \E suffix \in UpcastSuffixes : UpcasterOn(suffix)
    \/ \E events \in SeqsUpTo(UpcastPages, MaxPages) : Upcast(events)

SpecUpcaster == Init /\ [][NextUpcaster]_vars

\* A handler is registered whose suffix ends the type URL of the page's event
HasUpcaster(page) ==
    /\ page.has_event
    /\ \E i \in 1..Len(up.handlers_) : EndsWith(page.event.type_url, up.handlers_[i])

\* C30: upcasting a list of event pages preserves the number and order of
\* pages, passes every page with no matching registration through unchanged,
\* and preserves the sequence number and timestamp of every page whose
\* payload is rewritten.
C30_UpcastPreservesPages ==
    up.done =>
        /\ Len(up.result) = Len(up.events)
        /\ \A i \in 1..Len(up.events) :
              /\ ~HasUpcaster(up.events[i]) => up.result[i] = up.events[i]
              /\ HasUpcaster(up.events[i]) =>
                    /\ up.result[i].sequence = up.events[i].sequence
                    /\ up.result[i].has_created_at = up.events[i].has_created_at
                    /\ up.events[i].has_created_at =>
                          up.result[i].created_at = up.events[i].created_at

\* A page at sequence 5 with a timestamp is rewritten, after a page that
\* passed through
C30_Witness ==
    /\ up.done
    /\ Len(up.events) = 2
    /\ ~HasUpcaster(up.events[1])
    /\ HasUpcaster(up.events[2])
    /\ up.events[2].sequence = 5
    /\ up.events[2].has_created_at
    /\ up.result[2].event # up.events[2].event
    /\ up.result[2].sequence = 5

\* C40: when both as_of_sequence and as_of_time are called on one
\* QueryBuilder, the built query's temporal selector is the one set by the
\* later call: after as_of_time(t) the query is as-of-time t, after
\* as_of_sequence(n) it is as-of-sequence n.
C40_LaterTemporalWins ==
    LET query == build(qb) IN
    /\ (qb.call = "as_of_time" /\ ~qb.threw) =>
          query.as_of_time = qb.temporal_time_ /\ query.as_of_sequence = <<>>
    /\ qb.call = "as_of_sequence" =>
          query.as_of_sequence = qb.argument /\ query.as_of_time = <<>>

\* C31: in every player state reached by accepted commands (register,
\* deposit, withdraw, reserve, release, transfer) 0 <= reserved_funds <=
\* bankroll: the available balance is never negative.
C31_ReservedWithinBankroll ==
    LET state == from_event_book(book) IN
    /\ 0 <= state.reserved_funds
    /\ state.reserved_funds <= state.bankroll

\* Every player of the process who is neither folded nor all-in has acted in
\* the round and has bet at least the current bet
EveryLivePlayerSettled(process) ==
    \A position \in DOMAIN process.players :
        (~process.players[position].has_folded /\ ~process.players[position].is_all_in)
            => /\ process.players[position].has_acted
               /\ process.players[position].bet_this_round >= process.current_bet

IssuedBy(name) ==
    {k \in 1..Len(flow.commands) : AnyIs(flow.commands[k].pages[1], HandFullName(name))}

\* C39: the hand-flow process manager treats a betting round as complete
\* exactly when every player who is neither folded nor all-in has acted and
\* has bet_this_round at least the current bet, and a DealCommunityCards or
\* AwardPot command is issued only for a hand whose round is complete.
C39_BettingCompleteExactly ==
    /\ \A hand_id \in DOMAIN flow.processes_ :
          is_betting_complete(flow.processes_[hand_id])
              <=> EveryLivePlayerSettled(flow.processes_[hand_id])
    /\ \A k \in IssuedBy(<<"DealCommunityCards">>) \cup IssuedBy(<<"AwardPot">>) :
          \E hand_id \in DOMAIN flow.processes_ :
              /\ hand_root_of(hand_id) = flow.commands[k].root
              /\ is_betting_complete(flow.processes_[hand_id])

\* An action closed a round: AwardPot went out for a hand whose live players
\* have all acted and matched the bet
C39_Witness ==
    /\ IssuedBy(<<"AwardPot">>) # {}
    /\ \E hand_id \in DOMAIN flow.processes_ :
          /\ flow.processes_[hand_id].phase = "COMPLETE"
          /\ EveryLivePlayerSettled(flow.processes_[hand_id])

\* The events of one hand that the process manager handles by searching
\* processes_ rather than by the event's hand ID
HandScoped ==
    {(<<"BlindPosted">>), (<<"ActionTaken">>), (<<"Community", "CardsDealt">>),
     (<<"PotAwarded">>)}

\* C36: an event belonging to one hand changes only that hand's process: with
\* two hands in progress, a BlindPosted, ActionTaken, CommunityCardsDealt or
\* PotAwarded event never changes the phase, pot or player state of another
\* hand. Whichever hand the event is of, every other hand's process is left
\* as it was.
C36_OtherHandsUntouched ==
    [][(/\ Len(flow'.pages) = 1
        /\ \E name \in HandScoped : AnyIs(flow'.pages[1].event, HandFullName(name)))
       => \E owner \in FlowHandIds :
              \A hand_id \in DOMAIN flow.processes_ :
                  hand_id # owner =>
                      /\ flow'.processes_[hand_id].phase = flow.processes_[hand_id].phase
                      /\ flow'.processes_[hand_id].pot_total = flow.processes_[hand_id].pot_total
                      /\ flow'.processes_[hand_id].players = flow.processes_[hand_id].players]_vars

\* ------------------------------------ examples/cpp/hand aggregate: commands
\* The deck handle_deal builds: every suit, in the order of its loop, ranks
\* MinRank..MaxDealRank
DealSuits == <<"CLUBS", "DIAMONDS", "HEARTS", "SPADES">>
DealRanks == MaxDealRank - MinRank + 1
FullDeck ==
    [i \in 1..(Len(DealSuits) * DealRanks) |->
        [suit |-> DealSuits[((i - 1) \div DealRanks) + 1], rank |-> MinRank + ((i - 1) % DealRanks)]]

\* Two of the orders a std::shuffle of that deck can leave it in
Reversed(deck) == [i \in 1..Len(deck) |-> deck[Len(deck) + 1 - i]]
ShuffledDecks == {FullDeck, Reversed(FullDeck)}

\* A command of the hand aggregate, as a default-constructed message with the
\* fields of its type set
EmptyHandCommand ==
    [table_root |-> "", hand_number |-> 0, game_variant |-> "GAME_VARIANT_UNSPECIFIED",
     dealer_position |-> 0, players |-> <<>>, deck_seed |-> <<>>, player_root |-> "",
     blind_type |-> "", amount |-> 0, action |-> "ACTION_UNSPECIFIED", count |-> 0,
     awards |-> <<>>]

HandCommand(name, command) == [type_url |-> HandUrl(<<name>>), body |-> command]

DealCards ==
    HandCommand("DealCards",
                [EmptyHandCommand EXCEPT !.table_root = "t1", !.hand_number = 1,
                                         !.game_variant = "TEXAS_HOLDEM",
                                         !.players = HandPlayers])

PostBlind(player_root, blind_type, amount) ==
    HandCommand("PostBlind",
                [EmptyHandCommand EXCEPT !.player_root = player_root,
                                         !.blind_type = blind_type, !.amount = amount])

PlayerAction(player_root, action, amount) ==
    HandCommand("PlayerAction",
                [EmptyHandCommand EXCEPT !.player_root = player_root, !.action = action,
                                         !.amount = amount])

DealCommunityCards(count) ==
    HandCommand("DealCommunityCards", [EmptyHandCommand EXCEPT !.count = count])

PotAward(player_root, amount) ==
    [player_root |-> player_root, amount |-> amount, pot_type |-> "main"]

AwardPot(awards) == HandCommand("AwardPot", [EmptyHandCommand EXCEPT !.awards = awards])

HandRoots == {"p1", "p2"}
SizedActions == {"BET", "RAISE"}
PlainActions == {"FOLD", "CHECK", "CALL", "ALL_IN", "ACTION_UNSPECIFIED"}

HandCommands ==
    {DealCards} \cup
    {PostBlind("p1", "small", a) : a \in 1..MaxAmount} \cup
    {PostBlind("p2", "big", a) : a \in 1..MaxAmount} \cup
    {PlayerAction(r, action, a) : r \in HandRoots, action \in SizedActions, a \in Amounts} \cup
    {PlayerAction(r, action, 0) : r \in HandRoots, action \in PlainActions} \cup
    {DealCommunityCards(count) : count \in {1, 3}} \cup
    {AwardPot(<<PotAward("p1", a)>>) : a \in Amounts} \cup
    {AwardPot(<<PotAward("p1", a), PotAward("p2", b)>>) : a \in Amounts, b \in Amounts}

\* The command books a client sends: no page, or one command page
HandCommandBooks == {<<>>} \cup {<<c>> : c \in HandCommands}

\* HandState::get_pot_total
RECURSIVE pots_total(_, _)
pots_total(pots, i) == IF i > Len(pots) THEN 0 ELSE pots[i].amount + pots_total(pots, i + 1)
get_pot_total(state) == pots_total(state.pots, 1)

\* HandState::get_player: nullptr is {}, a player is the set of its position
get_player(state, player_root) == get_player_mut(state.players, player_root)

\* What a handler returns (its events, in page order) or throws
Emit(events) == [ok |-> TRUE, events |-> events]

\* handlers::handle_deal; deck is the deck as its shuffle leaves it
handle_deal(c, state, deck) ==
    IF hand_exists(state) THEN Reject("FAILED_PRECONDITION", "Hand already dealt")
    ELSE IF Len(c.players) = 0 THEN Reject("INVALID_ARGUMENT", "No players in hand")
    ELSE IF Len(c.players) < 2 THEN Reject("INVALID_ARGUMENT", "Need at least 2 players")
    ELSE LET cards_per_player == IF c.game_variant = "OMAHA" THEN 4
                                 ELSE IF c.game_variant = "FIVE_CARD_DRAW" THEN 5
                                 ELSE 2
             hole(i) == SubSeq(deck, Min({(i - 1) * cards_per_player, Len(deck)}) + 1,
                               Min({i * cards_per_player, Len(deck)}))
         IN Emit(<<HandEvent(<<"CardsDealt">>,
                             [table_root |-> c.table_root, hand_number |-> c.hand_number,
                              game_variant |-> c.game_variant,
                              dealer_position |-> c.dealer_position,
                              players |-> c.players,
                              player_cards |->
                                  [i \in 1..Len(c.players) |->
                                      [player_root |-> c.players[i].player_root,
                                       cards |-> hole(i)]]])>>)

\* handlers::handle_post_blind
handle_post_blind(c, state) ==
    LET found == get_player(state, c.player_root)
        player == state.players[CHOOSE q \in found : TRUE]
        actual_amount == Min({c.amount, player.stack})
    IN IF ~hand_exists(state) THEN Reject("NOT_FOUND", "Hand not dealt")
       ELSE IF state.status = <<"complete">>
       THEN Reject("FAILED_PRECONDITION", "Hand is complete")
       ELSE IF c.player_root = "" THEN Reject("INVALID_ARGUMENT", "player_root is required")
       ELSE IF found = {} THEN Reject("NOT_FOUND", "Player not in hand")
       ELSE IF player.has_folded THEN Reject("FAILED_PRECONDITION", "Player has folded")
       ELSE IF c.amount <= 0 THEN Reject("INVALID_ARGUMENT", "Blind amount must be positive")
       ELSE Emit(<<HandEvent(<<"BlindPosted">>,
                             [player_root |-> c.player_root, blind_type |-> c.blind_type,
                              amount |-> actual_amount,
                              player_stack |-> player.stack - actual_amount,
                              pot_total |-> get_pot_total(state) + actual_amount])>>)

\* handlers::handle_action, its compute step: the action and amount of the
\* event, or the rejection
action_amount(c, state, player) ==
    LET call_amount == state.current_bet - player.bet_this_round
        settled(action, amount) ==
            [ok |-> TRUE, amount |-> amount,
             action |-> IF player.stack - amount = 0 THEN "ALL_IN" ELSE action]
    IN IF c.action = "FOLD" THEN [ok |-> TRUE, action |-> "FOLD", amount |-> 0]
       ELSE IF c.action = "CHECK"
       THEN IF call_amount > 0
            THEN Reject("FAILED_PRECONDITION", "Cannot check when there is a bet to call")
            ELSE [ok |-> TRUE, action |-> "CHECK", amount |-> 0]
       ELSE IF c.action = "CALL"
       THEN IF call_amount = 0 THEN Reject("FAILED_PRECONDITION", "Nothing to call")
            ELSE settled("CALL", Min({call_amount, player.stack}))
       ELSE IF c.action = "BET"
       THEN IF state.current_bet > 0
            THEN Reject("FAILED_PRECONDITION", "Cannot bet when there is already a bet")
            ELSE IF c.amount < state.big_blind
            THEN Reject("INVALID_ARGUMENT", "Bet must be at least big_blind")
            ELSE IF c.amount > player.stack
            THEN Reject("INVALID_ARGUMENT", "Bet exceeds stack")
            ELSE settled("BET", c.amount)
       ELSE IF c.action = "RAISE"
       THEN IF state.current_bet = 0
            THEN Reject("FAILED_PRECONDITION", "Cannot raise when there is no bet")
            ELSE IF /\ (player.bet_this_round + c.amount) - state.current_bet < state.min_raise
                    /\ c.amount < player.stack
            THEN Reject("INVALID_ARGUMENT", "Raise must be at least min_raise")
            ELSE IF c.amount > player.stack
            THEN Reject("INVALID_ARGUMENT", "Raise exceeds stack")
            ELSE settled("RAISE", c.amount)
       ELSE IF c.action = "ALL_IN"
       THEN [ok |-> TRUE, action |-> "ALL_IN", amount |-> player.stack]
       ELSE Reject("INVALID_ARGUMENT", "Invalid action")

\* handlers::handle_action
handle_action(c, state) ==
    LET found == get_player(state, c.player_root)
        player == state.players[CHOOSE q \in found : TRUE]
        computed == action_amount(c, state, player)
        new_bet == player.bet_this_round + computed.amount
    IN IF ~hand_exists(state) THEN Reject("NOT_FOUND", "Hand not dealt")
       ELSE IF state.status # <<"betting">>
       THEN Reject("FAILED_PRECONDITION", "Not in betting phase")
       ELSE IF c.player_root = "" THEN Reject("INVALID_ARGUMENT", "player_root is required")
       ELSE IF found = {} THEN Reject("NOT_FOUND", "Player not in hand")
       ELSE IF player.has_folded THEN Reject("FAILED_PRECONDITION", "Player has folded")
       ELSE IF player.is_all_in THEN Reject("FAILED_PRECONDITION", "Player is all-in")
       ELSE IF ~computed.ok THEN computed
       ELSE Emit(<<HandEvent(<<"ActionTaken">>,
                             [player_root |-> c.player_root, action |-> computed.action,
                              amount |-> computed.amount,
                              player_stack |-> player.stack - computed.amount,
                              pot_total |-> get_pot_total(state) + computed.amount,
                              amount_to_call |->
                                  Max({state.current_bet, new_bet}) - player.bet_this_round])>>)

\* get_next_phase of deal_community_handler.cpp
get_next_phase(variant, current) ==
    IF variant = "FIVE_CARD_DRAW"
    THEN [next_phase |-> "BETTING_PHASE_UNSPECIFIED", cards_to_deal |-> 0]
    ELSE IF current = "PREFLOP" THEN [next_phase |-> "FLOP", cards_to_deal |-> 3]
    ELSE IF current = "FLOP" THEN [next_phase |-> "TURN", cards_to_deal |-> 1]
    ELSE IF current = "TURN" THEN [next_phase |-> "RIVER", cards_to_deal |-> 1]
    ELSE [next_phase |-> "BETTING_PHASE_UNSPECIFIED", cards_to_deal |-> 0]

\* handlers::handle_deal_community
handle_deal_community(c, state) ==
    LET transition == get_next_phase(state.game_variant, state.current_phase)
        dealt == SubSeq(state.remaining_deck, 1, c.count)
    IN IF ~hand_exists(state) THEN Reject("NOT_FOUND", "Hand not dealt")
       ELSE IF state.status = <<"complete">>
       THEN Reject("FAILED_PRECONDITION", "Hand is complete")
       ELSE IF c.count <= 0 THEN Reject("INVALID_ARGUMENT", "Must deal at least 1 card")
       ELSE IF state.game_variant = "FIVE_CARD_DRAW"
       THEN Reject("FAILED_PRECONDITION", "Five card draw doesn't have community cards")
       ELSE IF transition.next_phase = "BETTING_PHASE_UNSPECIFIED"
       THEN Reject("FAILED_PRECONDITION", "No more phases")
       ELSE IF transition.cards_to_deal # c.count
       THEN Reject("INVALID_ARGUMENT", "Expected cards_to_deal cards for this phase")
       ELSE IF Len(state.remaining_deck) < c.count
       THEN Reject("FAILED_PRECONDITION", "Not enough cards in deck")
       ELSE Emit(<<HandEvent(<<"Community", "CardsDealt">>,
                             [phase |-> transition.next_phase, cards |-> dealt,
                              all_community_cards |-> state.community_cards \o dealt])>>)

\* The sum of the amounts of awards i..
RECURSIVE awards_sum(_, _)
awards_sum(awards, i) ==
    IF i > Len(awards) THEN 0 ELSE awards[i].amount + awards_sum(awards, i + 1)

\* handle_award_pot, "Adjust awards to match pot if needed"
adjusted_awards(awards, pot_total) ==
    IF awards_sum(awards, 1) # pot_total /\ pot_total > 0 /\ awards # <<>>
    THEN [awards EXCEPT ![1].amount = pot_total - awards_sum(awards, 2)]
    ELSE awards

\* handlers::handle_award_pot; player_order is the iteration order of the
\* players map, which orders HandComplete.final_stacks
handle_award_pot(c, state, player_order) ==
    LET unfit == {i \in 1..Len(c.awards) :
                     \/ get_player(state, c.awards[i].player_root) = {}
                     \/ \E q \in get_player(state, c.awards[i].player_root) :
                            state.players[q].has_folded}
        adjusted == adjusted_awards(c.awards, get_pot_total(state))
        seated == SelectSeq(player_order, LAMBDA q : q \in DOMAIN state.players)
        snapshot(q) ==
            [player_root |-> state.players[q].player_root,
             stack |-> state.players[q].stack
                          + winnings(adjusted, state.players[q].player_root, 1),
             is_all_in |-> state.players[q].is_all_in,
             has_folded |-> state.players[q].has_folded]
    IN IF ~hand_exists(state) THEN Reject("NOT_FOUND", "Hand not dealt")
       ELSE IF state.status = <<"complete">>
       THEN Reject("FAILED_PRECONDITION", "Hand already complete")
       ELSE IF c.awards = <<>> THEN Reject("INVALID_ARGUMENT", "No awards specified")
       ELSE IF unfit # {}
       THEN IF get_player(state, c.awards[Min(unfit)].player_root) = {}
            THEN Reject("NOT_FOUND", "Winner not in hand")
            ELSE Reject("FAILED_PRECONDITION", "Folded player cannot win pot")
       ELSE Emit(<<HandEvent(<<"PotAwarded">>, [winners |-> adjusted]),
                   HandEvent(<<"HandComplete">>,
                             [table_root |-> state.table_root,
                              hand_number |-> state.hand_number,
                              winners |-> adjusted,
                              final_stacks |-> [i \in 1..Len(seated) |-> snapshot(seated[i])]])>>)

\* command_any.UnpackTo(&cmd), its result unchecked: the command of the type
\* the branch expects, or a default-constructed one
UnpackedAs(command_any, name) ==
    IF AnyIs(command_any, HandFullName(<<name>>)) THEN command_any.body ELSE EmptyHandCommand

\* HandAggregateService::Handle: the status and the response's event pages
HandHandle(command_pages, pages, shuffles, deck, player_order) ==
    IF Len(command_pages) = 0
    THEN [status |-> "INVALID_ARGUMENT", message |-> "No command pages", pages |-> <<>>]
    ELSE
    LET command_any == command_pages[1]
        type_url == command_any.type_url
        state == hand_from_event_book(pages, shuffles)
        r == IF Find(type_url, <<"AwardPot">>)
             THEN handle_award_pot(UnpackedAs(command_any, "AwardPot"), state, player_order)
             ELSE IF Find(type_url, <<"DealCards">>)
             THEN handle_deal(UnpackedAs(command_any, "DealCards"), state, deck)
             ELSE IF Find(type_url, <<"PostBlind">>)
             THEN handle_post_blind(UnpackedAs(command_any, "PostBlind"), state)
             ELSE IF Find(type_url, <<"PlayerAction">>)
             THEN handle_action(UnpackedAs(command_any, "PlayerAction"), state)
             ELSE IF Find(type_url, <<"DealCommunityCards">>)
             THEN handle_deal_community(UnpackedAs(command_any, "DealCommunityCards"), state)
             ELSE Reject("INVALID_ARGUMENT", "Unknown command type")
    IN IF r.ok
       THEN [status |-> "OK", message |-> "",
             pages |-> [i \in 1..Len(r.events) |-> response_page(r.events[i])]]
       ELSE [status |-> r.code, message |-> r.message, pages |-> <<>>]

\* One command sent to the hand aggregate of one hand, from the request to the
\* stored outcome: the state is rebuilt (and its deck reshuffled) from the
\* stored pages, and the pages of an accepted response are appended to them
HandleHandCommand(command_pages, shuffles, deck, player_order) ==
    LET r == HandHandle(command_pages, handagg.pages, shuffles, deck, player_order) IN
    /\ Len(handagg.pages) < MaxHandCommands
    /\ handagg' = [pages |-> IF r.status = "OK" THEN handagg.pages \o r.pages
                             ELSE handagg.pages,
                   status |-> r.status, command |-> command_pages, events |-> r.pages]
    /\ UNCHANGED exceptHandAgg

\* The shuffle of handle_deal matters to DealCards alone, and the iteration
\* order of the players map to AwardPot alone
DealtDecks(command_pages) ==
    IF command_pages # <<>> /\ Find(command_pages[1].type_url, <<"DealCards">>)
    THEN ShuffledDecks ELSE {FullDeck}
AwardOrders(command_pages) ==
    IF command_pages # <<>> /\ Find(command_pages[1].type_url, <<"AwardPot">>)
    THEN PlayerOrders ELSE {CHOOSE player_order \in PlayerOrders : TRUE}

NextHandAgg ==
    \E command_pages \in HandCommandBooks :
        \E deck \in DealtDecks(command_pages), player_order \in AwardOrders(command_pages),
           shuffles \in [ShufflingPages(handagg.pages) -> ShuffledDecks] :
            HandleHandCommand(command_pages, shuffles, deck, player_order)

SpecHandAgg == Init /\ [][NextHandAgg]_vars

\* The last command was accepted and answered with an event of this type
Answered(command, event) ==
    /\ handagg.status = "OK"
    /\ AnyIs(handagg.command[1], HandFullName(<<command>>))
    /\ AnyIs(handagg.events[1].event, HandFullName(event))

\* The hand as the last command saw it (its pots do not depend on the shuffle)
HandBefore ==
    hand_from_event_book(SubSeq(handagg.pages, 1, Len(handagg.pages) - Len(handagg.events)),
                         [i \in {} |-> FullDeck])

\* C32: every ActionTaken event the hand aggregate produces for an accepted
\* PlayerAction has amount >= 0 and player_stack >= 0.
C32_ActionWithinStack ==
    Answered("PlayerAction", <<"ActionTaken">>) =>
        /\ handagg.events[1].event.body.amount >= 0
        /\ handagg.events[1].event.body.player_stack >= 0

\* The CommunityCardsDealt events stored for the hand, in order
CommunityDeals ==
    SelectSeq(handagg.pages,
              LAMBDA page : AnyIs(page.event, HandFullName(<<"Community", "CardsDealt">>)))

DealSteps ==
    <<[phase |-> "FLOP", cards |-> 3], [phase |-> "TURN", cards |-> 1],
      [phase |-> "RIVER", cards |-> 1]>>

\* C33: each accepted DealCommunityCards advances the hand's phase exactly one
\* step along PREFLOP -> FLOP -> TURN -> RIVER, dealing 3, 1 and 1 cards; at
\* most three are accepted per hand, so the hand never has more than five
\* community cards.
C33_CommunityDealsInOrder ==
    /\ Len(CommunityDeals) <= Len(DealSteps)
    /\ \A i \in 1..Len(CommunityDeals) :
          i <= Len(DealSteps) =>
              /\ CommunityDeals[i].event.body.phase = DealSteps[i].phase
              /\ Len(CommunityDeals[i].event.body.cards) = DealSteps[i].cards

\* C34: every PotAwarded event produced for an accepted AwardPot has
\* non-negative winner amounts that sum to the hand's pot total.
C34_AwardsSumToPot ==
    Answered("AwardPot", <<"PotAwarded">>) =>
        LET winners == handagg.events[1].event.body.winners IN
        /\ \A i \in 1..Len(winners) : winners[i].amount >= 0
        /\ awards_sum(winners, 1) = get_pot_total(HandBefore)

\* ------------------------------------------- examples/cpp/table aggregate
\* TableState{} as default-constructed
EmptyTableState ==
    [table_id |-> <<>>, table_name |-> <<>>, game_variant |-> "GAME_VARIANT_UNSPECIFIED",
     small_blind |-> 0, big_blind |-> 0, min_buy_in |-> 0, max_buy_in |-> 0,
     max_players |-> 9, action_timeout_seconds |-> 30, seats |-> [position \in {} |-> 0],
     dealer_position |-> 0, hand_count |-> 0, current_hand_root |-> <<>>, status |-> <<>>]

table_exists(state) == state.table_id # <<>>
is_full(state) == Cardinality(DOMAIN state.seats) >= state.max_players
active_player_count(state) ==
    Cardinality({position \in DOMAIN state.seats : ~state.seats[position].is_sitting_out})

\* TableState::get_seat: nullptr is {}
get_seat(state, position) == {position} \cap DOMAIN state.seats

\* TableState::find_player_seat: nullptr is {}, else the positions seating the root
find_player_seat(state, player_root) ==
    {position \in DOMAIN state.seats : state.seats[position].player_root = player_root}

\* TableState::find_available_seat
find_available_seat_unbounded(state, preferred) ==
    LET free == {pos \in 0..(state.max_players - 1) : pos \notin DOMAIN state.seats}
    IN IF preferred > 0 /\ preferred \notin DOMAIN state.seats
       THEN preferred
       ELSE IF free = {} THEN -1 ELSE Min(free)
find_available_seat(state, preferred) ==
    LET free == {pos \in 0..(state.max_players - 1) : pos \notin DOMAIN state.seats}
    IN IF preferred > 0 /\ preferred < state.max_players /\ preferred \notin DOMAIN state.seats
       THEN preferred
       ELSE IF free = {} THEN -1 ELSE Min(free)

\* The sorted positions of a set of seats
sorted_positions(positions) ==
    SortSeq(CHOOSE q \in [1..Cardinality(positions) -> positions] :
                \A i, j \in 1..Cardinality(positions) : q[i] = q[j] => i = j,
            LAMBDA a, b : a < b)

\* The index (from 0) of the first entry equal to position, 0 when there is none
index_of(positions, position) ==
    LET hits == {i \in 1..Len(positions) : positions[i] = position}
    IN IF hits = {} THEN 0 ELSE Min(hits) - 1

\* TableState::next_dealer_position
next_dealer_position(state) ==
    IF DOMAIN state.seats = {} THEN 0
    ELSE LET positions == sorted_positions(DOMAIN state.seats)
             current_idx == index_of(positions, state.dealer_position)
         IN positions[((current_idx + 1) % Len(positions)) + 1]

\* TableState::apply_event, for the events the table's handlers produce
table_apply_event(state, event_any) ==
    LET type_url == event_any.type_url
        event == event_any.body
        is(name) == Find(type_url, <<name>>) /\ AnyIs(event_any, HandFullName(<<name>>))
    IN IF Find(type_url, <<"TableCreated">>)
       THEN IF ~is("TableCreated") THEN state
            ELSE [state EXCEPT !.table_id = <<"table_">> \o event.table_name,
                               !.table_name = event.table_name,
                               !.game_variant = event.game_variant,
                               !.small_blind = event.small_blind,
                               !.big_blind = event.big_blind,
                               !.min_buy_in = event.min_buy_in,
                               !.max_buy_in = event.max_buy_in,
                               !.max_players = event.max_players,
                               !.action_timeout_seconds = event.action_timeout_seconds,
                               !.status = <<"waiting">>]
       ELSE IF Find(type_url, <<"PlayerJoined">>)
       THEN IF ~is("PlayerJoined") THEN state
            ELSE [state EXCEPT !.seats =
                     [position \in DOMAIN @ \cup {event.seat_position} |->
                         IF position = event.seat_position
                         THEN [position |-> event.seat_position,
                               player_root |-> event.player_root, stack |-> event.stack,
                               is_active |-> TRUE, is_sitting_out |-> FALSE]
                         ELSE @[position]]]
       ELSE IF Find(type_url, <<"PlayerLeft">>)
       THEN IF ~is("PlayerLeft") THEN state
            ELSE [state EXCEPT !.seats =
                     [position \in DOMAIN @ \ {event.seat_position} |-> @[position]]]
       ELSE IF Find(type_url, <<"HandStarted">>)
       THEN IF ~is("HandStarted") THEN state
            ELSE [state EXCEPT !.hand_count = event.hand_number,
                               !.current_hand_root = event.hand_root,
                               !.dealer_position = event.dealer_position,
                               !.status = <<"in_hand">>]
       ELSE IF Find(type_url, <<"HandEnded">>)
       THEN IF ~is("HandEnded") THEN state
            ELSE [state EXCEPT
                     !.current_hand_root = <<>>,
                     !.status = <<"waiting">>,
                     !.seats = [position \in DOMAIN @ |->
                                   IF Hex(@[position].player_root) \in DOMAIN event.stack_changes
                                   THEN [@[position] EXCEPT
                                            !.stack = @ + event.stack_changes[
                                                              Hex(state.seats[position].player_root)]]
                                   ELSE @[position]]]
       ELSE state

RECURSIVE table_apply_pages(_, _, _)
table_apply_pages(state, pages, i) ==
    IF i > Len(pages) THEN state
    ELSE table_apply_pages(table_apply_event(state, pages[i].event), pages, i + 1)

\* TableState::from_event_book
table_from_event_book(pages) == table_apply_pages(EmptyTableState, pages, 1)

\* handlers::handle_create
handle_create(c, state) ==
    IF table_exists(state) THEN Reject("FAILED_PRECONDITION", "Table already exists")
    ELSE IF c.table_name = <<>> THEN Reject("INVALID_ARGUMENT", "table_name is required")
    ELSE IF c.small_blind <= 0 THEN Reject("INVALID_ARGUMENT", "small_blind must be positive")
    ELSE IF c.big_blind <= 0 THEN Reject("INVALID_ARGUMENT", "big_blind must be positive")
    ELSE IF c.big_blind < c.small_blind
    THEN Reject("INVALID_ARGUMENT", "big_blind must be >= small_blind")
    ELSE IF c.max_players < 2 \/ c.max_players > 10
    THEN Reject("INVALID_ARGUMENT", "max_players must be between 2 and 10")
    ELSE Emit(<<HandEvent(<<"TableCreated">>,
                  [table_name |-> c.table_name, game_variant |-> c.game_variant,
                   small_blind |-> c.small_blind, big_blind |-> c.big_blind,
                   min_buy_in |-> IF c.min_buy_in > 0 THEN c.min_buy_in ELSE c.big_blind * 20,
                   max_buy_in |-> IF c.max_buy_in > 0 THEN c.max_buy_in ELSE c.big_blind * 100,
                   max_players |-> IF c.max_players > 0 THEN c.max_players ELSE 9,
                   action_timeout_seconds |->
                       IF c.action_timeout_seconds > 0 THEN c.action_timeout_seconds ELSE 30])>>)

\* handlers::handle_join
handle_join(c, state) ==
    IF ~table_exists(state) THEN Reject("NOT_FOUND", "Table does not exist")
    ELSE IF c.player_root = "" THEN Reject("INVALID_ARGUMENT", "player_root is required")
    ELSE IF find_player_seat(state, c.player_root) # {}
    THEN Reject("FAILED_PRECONDITION", "Player already seated at table")
    ELSE IF is_full(state) THEN Reject("FAILED_PRECONDITION", "Table is full")
    ELSE IF c.buy_in_amount < state.min_buy_in
    THEN Reject("INVALID_ARGUMENT", "Buy-in must be at least min_buy_in")
    ELSE IF c.buy_in_amount > state.max_buy_in
    THEN Reject("INVALID_ARGUMENT", "Buy-in cannot exceed max_buy_in")
    ELSE IF c.preferred_seat > 0 /\ get_seat(state, c.preferred_seat) # {}
    THEN Reject("FAILED_PRECONDITION", "Seat is occupied")
    ELSE Emit(<<HandEvent(<<"PlayerJoined">>,
                          [player_root |-> c.player_root,
                           seat_position |-> find_available_seat(state, c.preferred_seat),
                           buy_in_amount |-> c.buy_in_amount, stack |-> c.buy_in_amount])>>)

\* handlers::handle_leave
handle_leave(c, state) ==
    LET found == find_player_seat(state, c.player_root)
        seat == state.seats[CHOOSE position \in found : TRUE]
    IN IF ~table_exists(state) THEN Reject("NOT_FOUND", "Table does not exist")
       ELSE IF c.player_root = "" THEN Reject("INVALID_ARGUMENT", "player_root is required")
       ELSE IF found = {} THEN Reject("NOT_FOUND", "Player is not seated at table")
       ELSE IF state.status = <<"in_hand">>
       THEN Reject("FAILED_PRECONDITION", "Cannot leave table during a hand")
       ELSE Emit(<<HandEvent(<<"PlayerLeft">>,
                             [player_root |-> c.player_root, seat_position |-> seat.position,
                              chips_cashed_out |-> seat.stack])>>)

\* generate_hand_root: a hash of the table ID and the hand number
generate_hand_root(table_id, hand_number) == <<[table_id |-> table_id, hand_number |-> hand_number]>>

\* handlers::handle_start_hand
handle_start_hand_again(c, state) ==
    LET hand_number == state.hand_count + 1
        dealer_position == next_dealer_position(state)
        active_positions ==
            sorted_positions({position \in DOMAIN state.seats :
                                 ~state.seats[position].is_sitting_out})
        n == Len(active_positions)
        dealer_idx == index_of(active_positions, dealer_position)
        small == IF n = 2 THEN dealer_idx ELSE (dealer_idx + 1) % n
        big == IF n = 2 THEN (dealer_idx + 1) % 2 ELSE (dealer_idx + 2) % n
    IN IF ~table_exists(state) THEN Reject("NOT_FOUND", "Table does not exist")
       ELSE IF active_player_count(state) < 2
       THEN Reject("FAILED_PRECONDITION", "Not enough players to start hand")
       ELSE Emit(<<HandEvent(<<"HandStarted">>,
                     [hand_root |-> generate_hand_root(state.table_id, hand_number),
                      hand_number |-> hand_number,
                      dealer_position |-> dealer_position,
                      small_blind_position |-> active_positions[small + 1],
                      big_blind_position |-> active_positions[big + 1],
                      game_variant |-> state.game_variant,
                      small_blind |-> state.small_blind, big_blind |-> state.big_blind,
                      active_players |->
                          [i \in 1..n |->
                              [position |-> active_positions[i],
                               player_root |-> state.seats[active_positions[i]].player_root,
                               stack |-> state.seats[active_positions[i]].stack]]])>>)
handle_start_hand(c, state) ==
    LET hand_number == state.hand_count + 1
        dealer_position == next_dealer_position(state)
        active_positions ==
            sorted_positions({position \in DOMAIN state.seats :
                                 ~state.seats[position].is_sitting_out})
        n == Len(active_positions)
        dealer_idx == index_of(active_positions, dealer_position)
        small == IF n = 2 THEN dealer_idx ELSE (dealer_idx + 1) % n
        big == IF n = 2 THEN (dealer_idx + 1) % 2 ELSE (dealer_idx + 2) % n
    IN IF ~table_exists(state) THEN Reject("NOT_FOUND", "Table does not exist")
       ELSE IF state.status = <<"in_hand">>
       THEN Reject("FAILED_PRECONDITION", "Hand already in progress")
       ELSE IF active_player_count(state) < 2
       THEN Reject("FAILED_PRECONDITION", "Not enough players to start hand")
       ELSE Emit(<<HandEvent(<<"HandStarted">>,
                     [hand_root |-> generate_hand_root(state.table_id, hand_number),
                      hand_number |-> hand_number,
                      dealer_position |-> dealer_position,
                      small_blind_position |-> active_positions[small + 1],
                      big_blind_position |-> active_positions[big + 1],
                      game_variant |-> state.game_variant,
                      small_blind |-> state.small_blind, big_blind |-> state.big_blind,
                      active_players |->
                          [i \in 1..n |->
                              [position |-> active_positions[i],
                               player_root |-> state.seats[active_positions[i]].player_root,
                               stack |-> state.seats[active_positions[i]].stack]]])>>)

\* the amounts the results give to one winner
RECURSIVE result_total(_, _, _)
result_total(results, winner_root, i) ==
    IF i > Len(results) THEN 0
    ELSE (IF results[i].winner_root = winner_root THEN results[i].amount ELSE 0)
         + result_total(results, winner_root, i + 1)

\* handlers::handle_end_hand
handle_end_hand(c, state) ==
    LET winners == {c.results[i].winner_root : i \in 1..Len(c.results)}
    IN IF ~table_exists(state) THEN Reject("NOT_FOUND", "Table does not exist")
       ELSE IF state.status # <<"in_hand">>
       THEN Reject("FAILED_PRECONDITION", "No hand in progress")
       ELSE IF c.hand_root # state.current_hand_root
       THEN Reject("INVALID_ARGUMENT", "Hand root mismatch")
       ELSE Emit(<<HandEvent(<<"HandEnded">>,
                     [hand_root |-> c.hand_root,
                      stack_changes |->
                          [player_hex \in {Hex(w) : w \in winners} |->
                              result_total(c.results, player_hex.hex, 1)],
                      results |-> c.results])>>)

\* A command of the table aggregate, as a default-constructed message with the
\* fields of its type set
EmptyTableCommand ==
    [table_name |-> <<>>, game_variant |-> "GAME_VARIANT_UNSPECIFIED", small_blind |-> 0,
     big_blind |-> 0, min_buy_in |-> 0, max_buy_in |-> 0, max_players |-> 0,
     action_timeout_seconds |-> 0, player_root |-> "", preferred_seat |-> 0,
     buy_in_amount |-> 0, hand_root |-> <<>>, results |-> <<>>]

TableCommand(name, command) == [type_url |-> HandUrl(<<name>>), body |-> command]

CreateTable(table_name, max_players) ==
    TableCommand("CreateTable",
                 [EmptyTableCommand EXCEPT !.table_name = table_name,
                                           !.game_variant = "TEXAS_HOLDEM",
                                           !.small_blind = 1, !.big_blind = 2,
                                           !.min_buy_in = 1, !.max_buy_in = MaxAmount,
                                           !.max_players = max_players])

JoinTable(player_root, preferred_seat, buy_in_amount) ==
    TableCommand("JoinTable",
                 [EmptyTableCommand EXCEPT !.player_root = player_root,
                                           !.preferred_seat = preferred_seat,
                                           !.buy_in_amount = buy_in_amount])

LeaveTable(player_root) ==
    TableCommand("LeaveTable", [EmptyTableCommand EXCEPT !.player_root = player_root])

StartHand == TableCommand("StartHand", EmptyTableCommand)

EndHand(hand_root, results) ==
    TableCommand("EndHand",
                 [EmptyTableCommand EXCEPT !.hand_root = hand_root, !.results = results])

TableNames == {<<>>, <<"T">>}
TablePlayers == {"", "p1", "p2", "p3"}
TableHandRoots ==
    {<<>>} \cup {generate_hand_root(<<"table_", "T">>, n) : n \in {1, 2}}
TableResults == {<<>>, <<[winner_root |-> "p1", amount |-> 1]>>}

TableCommands ==
    {CreateTable(n, m) : n \in TableNames, m \in 1..MaxSeats} \cup
    {JoinTable(r, seat, 1) : r \in TablePlayers, seat \in (0 - 1)..MaxSeats} \cup
    {JoinTable("p1", 0, a) : a \in {0, MaxAmount + 1}} \cup
    {LeaveTable(r) : r \in TablePlayers} \cup
    {StartHand} \cup
    {EndHand(h, results) : h \in TableHandRoots, results \in TableResults}

\* The command books a client sends: no page, or one command page
TableCommandBooks == {<<>>} \cup {<<c>> : c \in TableCommands}

\* command_any.UnpackTo(&cmd), its result unchecked
TableUnpackedAs(command_any, name) ==
    IF AnyIs(command_any, HandFullName(<<name>>)) THEN command_any.body ELSE EmptyTableCommand

\* TableAggregateService::Handle: the status and the response's event pages
TableHandle(command_pages, pages) ==
    IF Len(command_pages) = 0
    THEN [status |-> "INVALID_ARGUMENT", message |-> "No command pages", pages |-> <<>>]
    ELSE
    LET command_any == command_pages[1]
        type_url == command_any.type_url
        state == table_from_event_book(pages)
        r == IF Find(type_url, <<"CreateTable">>)
             THEN handle_create(TableUnpackedAs(command_any, "CreateTable"), state)
             ELSE IF Find(type_url, <<"JoinTable">>)
             THEN handle_join(TableUnpackedAs(command_any, "JoinTable"), state)
             ELSE IF Find(type_url, <<"LeaveTable">>)
             THEN handle_leave(TableUnpackedAs(command_any, "LeaveTable"), state)
             ELSE IF Find(type_url, <<"StartHand">>)
             THEN handle_start_hand(TableUnpackedAs(command_any, "StartHand"), state)
             ELSE IF Find(type_url, <<"EndHand">>)
             THEN handle_end_hand(TableUnpackedAs(command_any, "EndHand"), state)
             ELSE Reject("INVALID_ARGUMENT", "Unknown command type")
    IN IF r.ok
       THEN [status |-> "OK", message |-> "",
             pages |-> [i \in 1..Len(r.events) |-> response_page(r.events[i])]]
       ELSE [status |-> r.code, message |-> r.message, pages |-> <<>>]

\* One command sent to the table aggregate of one table, from the request to
\* the stored outcome
HandleTableCommand(command_pages) ==
    LET r == TableHandle(command_pages, table.pages) IN
    /\ Len(table.pages) < MaxTableCommands
    /\ table' = [pages |-> IF r.status = "OK" THEN table.pages \o r.pages ELSE table.pages,
                 status |-> r.status, events |-> r.pages]
    /\ UNCHANGED exceptTable

NextTable == \E command_pages \in TableCommandBooks : HandleTableCommand(command_pages)

SpecTable == Init /\ [][NextTable]_vars

\* The HandStarted and HandEnded events stored for the table, in order
TableHands ==
    SelectSeq(table.pages,
              LAMBDA page : \/ AnyIs(page.event, HandFullName(<<"HandStarted">>))
                            \/ AnyIs(page.event, HandFullName(<<"HandEnded">>)))

\* C37: on a table HandStarted and HandEnded events strictly alternate,
\* beginning with HandStarted, and successive HandStarted events carry the
\* hand numbers 1, 2, 3, ...
C37_HandsAlternate ==
    \A i \in 1..Len(TableHands) :
        IF i % 2 = 1
        THEN /\ AnyIs(TableHands[i].event, HandFullName(<<"HandStarted">>))
             /\ TableHands[i].event.body.hand_number = (i + 1) \div 2
        ELSE AnyIs(TableHands[i].event, HandFullName(<<"HandEnded">>))

\* A second hand was started after the first one ended
C37_Witness ==
    /\ Len(TableHands) >= 3
    /\ table.status = "OK"
    /\ AnyIs(table.events[1].event, HandFullName(<<"HandStarted">>))

\* C38: in every table state reached by accepted commands no player root is in
\* more than one seat, the occupied seats number at most max_players, and
\* every occupied position lies in [0, max_players).
C38_SeatsConsistent ==
    LET state == table_from_event_book(table.pages) IN
    /\ \A p, q \in DOMAIN state.seats :
          state.seats[p].player_root = state.seats[q].player_root => p = q
    /\ Cardinality(DOMAIN state.seats) <= state.max_players
    /\ \A p \in DOMAIN state.seats : 0 <= p /\ p < state.max_players

\* The table is full, and the last player joined at a seat of their choice
C38_Witness ==
    LET state == table_from_event_book(table.pages) IN
    /\ table_exists(state)
    /\ is_full(state)
    /\ table.status = "OK"
    /\ AnyIs(table.events[1].event, HandFullName(<<"PlayerJoined">>))
    /\ table.events[1].event.body.seat_position > 0

\* ------------------------- examples/cpp/hand-flow: the hand played to its end
\* The process a command book is addressed to
process_of(processes, command_book) ==
    processes[CHOOSE hand_id \in DOMAIN processes : hand_root_of(hand_id) = command_book.root]

\* The phase the hand aggregate deals next after the process's betting phase
dealt_phase(betting_phase) ==
    IF betting_phase = "PREFLOP" THEN "FLOP"
    ELSE IF betting_phase = "FLOP" THEN "TURN"
    ELSE "RIVER"

\* The event the hand aggregate answers a command of the process manager
\* with: BlindPosted for PostBlind, CommunityCardsDealt for DealCommunityCards,
\* PotAwarded for AwardPot
answer_event(processes, command_book) ==
    LET command == command_book.pages[1].body
        process == process_of(processes, command_book)
        seat == CHOOSE position \in DOMAIN process.players :
                    process.players[position].player_root = command.player_root
    IN IF AnyIs(command_book.pages[1], HandFullName(<<"PostBlind">>))
       THEN BlindPostedEvent(command.player_root, command.blind_type, command.amount,
                             process.players[seat].stack - command.amount,
                             process.pot_total + command.amount)
       ELSE IF AnyIs(command_book.pages[1], HandFullName(<<"DealCommunityCards">>))
       THEN HandEvent(<<"Community", "CardsDealt">>,
                      [cards |-> <<DeckInOrder[DeckSize]>>,
                       phase |-> dealt_phase(process.betting_phase)])
       ELSE HandEvent(<<"PotAwarded">>,
                      [winners |-> [i \in 1..Len(command.awards) |->
                                       [player_root |-> command.awards[i].player_root,
                                        amount |-> command.awards[i].amount]]])

\* HandFlowService::Handle with a trigger of one page; the calls are counted
\* up to MaxHandles and no further
HandleOne(event, process_order, player_order) ==
    LET pages == <<[event |-> event]>>
        r == handle_pages(flow.processes_, <<>>, pages, process_order, player_order, 1)
    IN /\ flow' = [processes_ |-> r.processes,
                   calls |-> Min({flow.calls + 1, MaxHandles}), done |-> TRUE,
                   correlation_id |-> <<"corr-1">>, pages |-> pages,
                   commands |-> r.commands]
       /\ UNCHANGED exceptFlow

\* A table starts a hand that has no process yet
StartFlowHand(hand_root, process_order, player_order) ==
    /\ flow.commands = <<>>
    /\ <<Hex(hand_root), "_", 1>> \notin DOMAIN flow.processes_
    /\ HandleOne(HandStartedEvent(hand_root), process_order, player_order)

\* The process of the hand waits for the hand's cards
CardsAwaited(hand_id) ==
    /\ hand_id \in DOMAIN flow.processes_
    /\ flow.processes_[hand_id].phase = "DEALING"

\* The hand aggregate deals the cards of a hand whose process waits for them
DeliverCardsDealt(hand_id, process_order, player_order) ==
    /\ flow.commands = <<>>
    /\ CardsAwaited(hand_id)
    /\ HandleOne(CardsDealtAt(hand_root_of(hand_id)), process_order, player_order)

\* The command of the last response is answered by its event
AnswerCommand(process_order, player_order) ==
    /\ flow.commands # <<>>
    /\ HandleOne(answer_event(flow.processes_, flow.commands[1]), process_order, player_order)

\* The hand is in a betting round and the player the action is on has yet to
\* act or to match the bet
ActionAwaited(hand_id) ==
    /\ hand_id \in DOMAIN flow.processes_
    /\ LET process == flow.processes_[hand_id]
           position == process.action_on
       IN /\ process.phase = "BETTING"
          /\ position \in DOMAIN process.players
          /\ ~process.players[position].has_folded
          /\ ~process.players[position].is_all_in
          /\ \/ ~process.players[position].has_acted
             \/ process.players[position].bet_this_round < process.current_bet

\* The player the action is on calls (checks when nothing is owed) or folds
PlayerActs(hand_id, action, process_order, player_order) ==
    /\ flow.commands = <<>>
    /\ ActionAwaited(hand_id)
    /\ LET process == flow.processes_[hand_id]
           player == process.players[process.action_on]
           owed == IF action = "CALL"
                   THEN Min({player.stack, process.current_bet - player.bet_this_round})
                   ELSE 0
       IN HandleOne(ActionTakenEvent(player.player_root, action, owed,
                                     player.stack - owed, process.pot_total + owed),
                    process_order, player_order)

FlowActions == {"CALL", "FOLD"}

StartsHand ==
    \E hand_root \in FlowRoots, process_order \in ProcessOrders, player_order \in PlayerOrders :
        StartFlowHand(hand_root, process_order, player_order)
DealsCards ==
    \E hand_id \in FlowHandIds, process_order \in ProcessOrders, player_order \in PlayerOrders :
        DeliverCardsDealt(hand_id, process_order, player_order)
Answers ==
    \E process_order \in ProcessOrders, player_order \in PlayerOrders :
        AnswerCommand(process_order, player_order)
Acts ==
    \E hand_id \in FlowHandIds, action \in FlowActions,
       process_order \in ProcessOrders, player_order \in PlayerOrders :
        PlayerActs(hand_id, action, process_order, player_order)

NextFlowLive == StartsHand \/ DealsCards \/ Answers \/ Acts

\* Every pending delivery happens: the cards are dealt, each command is
\* answered, the player to act acts
SpecFlowLive ==
    /\ Init
    /\ [][NextFlowLive]_vars
    /\ WF_vars(DealsCards)
    /\ WF_vars(Answers)
    /\ WF_vars(Acts)

\* Nothing is left to deliver: no command is unanswered, no hand waits for
\* its cards, no player has yet to act
Quiescent ==
    /\ flow.commands = <<>>
    /\ \A hand_id \in FlowHandIds : ~CardsAwaited(hand_id) /\ ~ActionAwaited(hand_id)

\* C35: a hand process created by HandStarted reaches COMPLETE when every
\* command it issues is answered by the corresponding event: once the cards
\* are dealt, every command is answered and every player has acted, no
\* process is left in a phase short of COMPLETE.
C35_CompleteWhenAnswered ==
    Quiescent =>
        \A hand_id \in DOMAIN flow.processes_ : flow.processes_[hand_id].phase = "COMPLETE"
====
